---- MODULE Spec2Model ----
(***************************************************************************)
(* The chat turn of the calendar assistant backend (backend/server.js,     *)
(* POST /api/chat), with the per-user encrypted settings it reads          *)
(* (backend/db/connection.js, backend/utils/encryption.js).                *)
(*                                                                         *)
(* One request is followed from requireAuth to its response.  Every await  *)
(* of the handler is a point where the model stops: the code between two   *)
(* awaits is one action.  The store, the LLM API and the calendar API are  *)
(* the environment: each awaited call returns or throws.                   *)
(***************************************************************************)
EXTENDS Integers, Sequences, FiniteSets, TLC

\* Bounds of the model: tool calls in one LLM response, items in the array of
\* one tool call.
MaxToolCalls == 2
MaxItems == 2

----------------------------------------------------------------------------
(* Values *)

\* Tool names: the three declared in calendarTools and one that is not.
DeclaredTools == {"create_calendar_event", "update_calendar_event", "delete_calendar_events"}
ToolNames == DeclaredTools \cup {"send_email"}

\* What toolCall.function.arguments holds: text JSON.parse rejects, JSON
\* without the array the tool iterates (args.events, args.updates,
\* args.eventIds undefined, or args null), or JSON with an array of n items.
ArgShapes ==
    {[kind |-> "malformed", n |-> 0], [kind |-> "noarray", n |-> 0]}
        \cup {[kind |-> "items", n |-> n] : n \in 0..MaxItems}

ToolCallShapes == [name : ToolNames, args : ArgShapes]

\* The id the LLM gives the i-th tool call of a response.
CallId(i) == <<"call", i>>

ToolCallSeqs(n) ==
    {[i \in 1..n |-> [id |-> CallId(i), name |-> f[i].name, args |-> f[i].args]] :
        f \in [1..n -> ToolCallShapes]}

\* An entry of a messages array.  role "assistant": content, and tool_calls
\* when tc_present (the field may be absent).  role "tool": tool_call_id and
\* result (the value JSON.stringify was given, or undefined).
NoResult == [kind |-> "none", op |-> "-", count |-> 0, error |-> "-"]
Undefined == [kind |-> "undefined", op |-> "-", count |-> 0, error |-> "-"]
NoId == <<"none", 0>>

AssistantMessage(content, present, calls) ==
    [role |-> "assistant", content |-> content, tc_present |-> present,
     tool_calls |-> calls, tool_call_id |-> NoId, result |-> NoResult]

\* What the first completion can answer: text only (no tool_calls field), or
\* a tool_calls array of 0..MaxToolCalls entries.
FirstResponses ==
    {AssistantMessage("first", FALSE, <<>>)}
        \cup UNION {{AssistantMessage("first", TRUE, c) : c \in ToolCallSeqs(n)} :
                        n \in 0..MaxToolCalls}

\* What the follow-up completion can answer: text, possibly with tool calls
\* of its own.
SecondResponses ==
    {AssistantMessage("final", FALSE, <<>>),
     AssistantMessage("final", TRUE,
        <<[id |-> CallId(9), name |-> "delete_calendar_events",
           args |-> [kind |-> "items", n |-> 1]]>>)}

\* Messages of the errors the environment throws.
LlmErrors == {"401 No auth credentials found", "Request timed out."}
ProviderErrors == {"Rate Limit Exceeded", "Not Found"}
StoreErrors == {"connection terminated"}
JsonParseError == "Unexpected end of JSON input"
NotIterableError == "args.events is not iterable"

----------------------------------------------------------------------------
(* Encryption of the API key *)

\* process.env.ENCRYPTION_KEY of the running process, and a key an earlier
\* deployment ran with.
EnvKey == "K1"
OldKey == "K0"

\* A ciphertext is determined by the plaintext, the IV and the key; "null" is
\* SQL NULL, "corrupt" is text that is no whole number of AES blocks.
NullCipher == [kind |-> "null", pt |-> "-", iv |-> "-", key |-> "-"]
CorruptCipher == [kind |-> "corrupt", pt |-> "-", iv |-> "-", key |-> "-"]
Cipher(pt, iv, key) == [kind |-> "ct", pt |-> pt, iv |-> iv, key |-> key]

ShortIv == "iv-short"

encryptApiKey(plaintext, iv) ==
    [encrypted |-> Cipher(plaintext, iv, EnvKey), iv |-> iv]

\* The result of decryptApiKey: the plaintext, or the Error it throws.  raw is
\* the error of the crypto library, which decryptApiKey only logs.
Decrypted(v) == [ok |-> TRUE, value |-> v, message |-> "-", raw |-> "-"]
DecryptThrows(msg, raw) == [ok |-> FALSE, value |-> "-", message |-> msg, raw |-> raw]
RawCryptoErrors == {"bad decrypt", "wrong final block length", "Invalid initialization vector"}

decryptApiKey(encrypted, ivHex) ==
    IF encrypted.kind = "null" \/ ivHex = "NULL"
    THEN DecryptThrows("Cannot decrypt: missing encrypted data or IV", "-")
    ELSE IF ivHex = ShortIv
    THEN DecryptThrows("Failed to decrypt API key", "Invalid initialization vector")
    ELSE IF encrypted.kind = "corrupt"
    THEN DecryptThrows("Failed to decrypt API key", "wrong final block length")
    ELSE IF encrypted.key # EnvKey
    \* decipher.final rejects the padding
    THEN DecryptThrows("Failed to decrypt API key", "bad decrypt")
    ELSE IF encrypted.iv # ivHex
    \* CBC with another IV of the right length garbles the first block only
    THEN Decrypted("garbled")
    ELSE Decrypted(encrypted.pt)

----------------------------------------------------------------------------
(* The store: the user_settings row of the one user *)

Row(enc, iv, model) ==
    [openrouter_api_key_encrypted |-> enc, encryption_iv |-> iv, openrouter_model |-> model]
EmptyRow == Row(NullCipher, "NULL", "NULL")

\* The rows a chat turn can find.  The first three are written by
\* findOrCreateUser, updateUserSettings and deleteUserApiKey; the others are
\* rows the running process cannot decrypt: written under another
\* ENCRYPTION_KEY, or damaged in the store.
StoredRows ==
    {EmptyRow,
     Row(encryptApiKey("sk-A", "iv1").encrypted, "iv1", "model-1"),
     Row(NullCipher, "NULL", "model-1"),
     Row(Cipher("sk-A", "iv1", OldKey), "iv1", "model-1"),
     Row(CorruptCipher, "iv1", "model-1"),
     Row(encryptApiKey("sk-A", "iv1").encrypted, "NULL", "model-1"),
     Row(encryptApiKey("sk-A", "iv1").encrypted, ShortIv, "model-1")}

Stores == {[present |-> FALSE, row |-> EmptyRow]}
              \cup {[present |-> TRUE, row |-> r] : r \in StoredRows}

\* getUserSettings: result.rows[0] || null
NoSettings == [state |-> "unread", row |-> EmptyRow]
getUserSettings(st) ==
    IF st.present THEN [state |-> "row", row |-> st.row]
                  ELSE [state |-> "null", row |-> EmptyRow]

----------------------------------------------------------------------------
(* Sessions *)

NoSession == [tokens |-> "NULL", userId |-> 0]
Sessions == {NoSession, [tokens |-> "tok-A", userId |-> 1]}

----------------------------------------------------------------------------
VARIABLES
    session,        \* req.session of the caller
    store,          \* the caller's user_settings row
    oauth2Client,   \* credentials of the process-wide OAuth2 client
    pc,             \* where the handler is
    settings,       \* the handler's settings
    client,         \* the handler's userOpenAI and userModel
    first,          \* the message of the first completion, once received
    ti,             \* index of the tool call being processed
    item,           \* index of the array item being sent
    toolMessages,   \* the handler's toolMessages
    llmCalls,       \* chat.completions.create calls made, in order
    providerLog,    \* calendar API calls started, in order
    inflight,       \* calendar API calls started and not yet settled
    applied,        \* calendar API calls that succeeded, in order
    failed,         \* calendar API calls that threw, with the error
    parseFailed,    \* tool calls whose arguments JSON.parse rejected
    responses       \* responses sent for the request

\* Requests of two sessions in flight in the one server process
VARIABLES
    reqs,           \* per session: the position of its request in flight
    calendarCalls   \* calendar API calls issued: whose request, which credentials

\* The users and user_settings tables and the findOrCreateUser call in progress
VARIABLES
    db,             \* committed rows of users and user_settings
    users_id_seq,   \* last value of the sequence behind users.id
    txn,            \* the call in progress: its position and its transaction
    returned        \* finished calls, in order: arguments and outcome

\* The Outlook translators: the event being translated and the last lookup
VARIABLES
    googleEvent,    \* the canonical event handed to the provider
    outlookEvent,   \* its Outlook form, once translated
    roundTrip,      \* the canonical form of that Outlook event, once translated back
    converted       \* the last lookup translation: translator, input, output

\* ProviderFactory
VARIABLES
    created,        \* outcome of the last createProvider call
    supported       \* outcome of the last isProviderSupported call

\* One provider instance
VARIABLES
    calendarProvider, \* the instance: variant, tokens, the tokens its API client holds
    now,            \* Date.now()
    pending,        \* the operation awaiting the calendar API or the identity provider
    refreshes,      \* the last refreshTokenIfNeeded call that settled
    failures        \* the last operations that threw: underlying error and thrown message

\* The OAuth life of one session: /api/auth/google, /api/auth/callback,
\* /api/auth/logout and the routes behind requireAuth
VARIABLES
    oauthState,     \* req.session.oauthState (0: undefined)
    issued,         \* state values /api/auth/google issued to the session
    stateSeq,       \* how many state values the process has issued
    consumed,       \* state values of the callbacks that passed the state check
    callback,       \* the callback in progress: its position, state parameter, code
    lastCallback,   \* the last callback answered: what it was sent and what it did
    served,         \* the last request to a route behind requireAuth and its answer
    loggedIn        \* a callback has succeeded and no logout followed it

authVars == <<oauthState, issued, stateSeq, consumed, callback, lastCallback, served,
              loggedIn>>

\* The settings routes: POST /api/user/settings, DELETE /api/user/settings/api-key
VARIABLES
    settingsCall,   \* the settings write awaiting the store
    lastSettings,   \* the last settings request answered: inputs, answer, row before and after
    saved,          \* the API key of the last successful save, as submitted ("-": none, or deleted since)
    readKey         \* the value of saved when the chat turn in progress read the settings

settingsVars == <<settingsCall, lastSettings, saved, readKey>>

\* Two findOrCreateUser calls in progress at once, each on its own connection
VARIABLES
    conn,           \* per caller: position, result, uncommitted writes, error raised
    finished        \* per caller: what its call returned or threw

raceVars == <<conn, finished>>

\* The chat panel of the UI (App.handleSendMessage, App.handleNewChat)
VARIABLES
    messages,       \* the messages state: the role of each message shown
    inputMessage,   \* the inputMessage state
    isSending,      \* the isSending state
    uiPc,           \* where the handleSendMessage in progress is
    uiResponse,     \* the response it is handling
    sendLog         \* what the sends did: counts of sends, requests, messages, re-fetches

uiVars == <<messages, inputMessage, isSending, uiPc, uiResponse, sendLog>>

persistent == <<session, store, oauth2Client>>
turn == <<pc, settings, client, first, ti, item, toolMessages, llmCalls,
          providerLog, inflight, applied, failed, parseFailed, responses>>
concVars == <<reqs, calendarCalls>>
dbVars == <<db, users_id_seq, txn, returned>>
transVars == <<googleEvent, outlookEvent, roundTrip, converted>>
factoryVars == <<created, supported>>
provVars == <<calendarProvider, now, pending, refreshes, failures>>
\* State that the chat turn of one session never touches
outsideChat == <<concVars, dbVars, transVars, factoryVars, provVars, authVars, settingsVars, raceVars, uiVars>>
\* State that the interleaved requests never touch
outsideConc == <<session, store, turn, dbVars, transVars, factoryVars, provVars, authVars, settingsVars, raceVars, uiVars>>
\* State that findOrCreateUser never touches
outsideDb == <<persistent, turn, concVars, transVars, factoryVars, provVars, authVars, settingsVars, raceVars, uiVars>>
\* State that the Outlook translators never touch
outsideTrans == <<persistent, turn, concVars, dbVars, factoryVars, provVars, authVars, settingsVars, raceVars, uiVars>>
\* State that the factory never touches
outsideFactory == <<persistent, turn, concVars, dbVars, transVars, provVars, authVars, settingsVars, raceVars, uiVars>>
\* State that the operations of a provider instance never touch
outsideProv == <<persistent, turn, concVars, dbVars, transVars, factoryVars, authVars, settingsVars, raceVars, uiVars>>
vars == <<persistent, turn, concVars, dbVars, transVars, factoryVars, provVars, authVars, settingsVars, raceVars, uiVars>>

NoClient == [built |-> FALSE, apiKey |-> "-", model |-> "-"]

TurnInit ==
    /\ pc = "idle"
    /\ settings = NoSettings
    /\ client = NoClient
    /\ first = <<>>
    /\ ti = 0
    /\ item = 0
    /\ toolMessages = <<>>
    /\ llmCalls = <<>>
    /\ providerLog = <<>>
    /\ inflight = {}
    /\ applied = <<>>
    /\ failed = {}
    /\ parseFailed = {}
    /\ responses = <<>>

\* Two signed-in sessions, each with the tokens its own sign-in stored
SessionIds == {"A", "B"}
SessionTokens == [A |-> "tok-A", B |-> "tok-B"]
NoRequest == [route |-> "-", pc |-> "idle", left |-> 0]

ConcInit ==
    /\ reqs = [s \in SessionIds |-> NoRequest]
    /\ calendarCalls = {}

\* Arguments findOrCreateUser is called with.  "undefined" is an omitted
\* provider argument, "NULL" is null.
MaxCalls == 2
ProviderIds == {"p1", "p2"}
Emails == {"a@x", "NULL"}
ProviderArgs == {"undefined", "google", "outlook", "azure", "NULL"}
Args == [providerId : ProviderIds, email : Emails, provider : ProviderArgs]
NoArgs == [providerId |-> "-", email |-> "-", provider |-> "-"]

UserRow(id, google_id, outlook_id, provider, email) ==
    [id |-> id, google_id |-> google_id, outlook_id |-> outlook_id,
     provider |-> provider, email |-> email]
SettingsRow(user_id) == [user_id |-> user_id]
EmptyDb == [users |-> {}, user_settings |-> {}]
NoRaised == [at |-> "-", message |-> "-"]
NoTxn == [pc |-> "idle", args |-> NoArgs, provider |-> "-", idColumn |-> "-",
          work |-> EmptyDb, result |-> <<>>, attempted |-> 0, error |-> NoRaised]

DbInit ==
    /\ db = EmptyDb
    /\ users_id_seq = 0
    /\ txn = NoTxn
    /\ returned = <<>>

\* JavaScript values: undefined is written "undefined"; a || b on strings
Falsy == {"undefined", ""}
Or(a, b) == IF a \in Falsy THEN b ELSE a

\* Canonical events (the Google Calendar shape)
MaxAttendees == 1
Time(dateTime, timeZone, date) ==
    [dateTime |-> dateTime, timeZone |-> timeZone, date |-> date]
Timed(dateTime, timeZone) == Time(dateTime, timeZone, "undefined")
AllDay(date) == Time("undefined", "undefined", date)
CanonicalTimes ==
    {[start |-> Timed("2025-03-01T10:00:00", "Europe/Paris"),
      end |-> Timed("2025-03-01T11:00:00", "Europe/Paris")],
     [start |-> Timed("2025-03-01T10:00:00", "UTC"),
      end |-> Timed("2025-03-01T11:00:00", "UTC")],
     [start |-> AllDay("2025-03-01"), end |-> AllDay("2025-03-02")]}
Attendee(email, displayName, responseStatus) ==
    [email |-> email, displayName |-> displayName, responseStatus |-> responseStatus]
Attendees == {Attendee("ann@x", "Ann", "accepted"),
              Attendee("bob@x", "undefined", "needsAction")}
AttendeeLists == UNION {[1..n -> Attendees] : n \in 0..MaxAttendees}
CanonicalEvents ==
    [id : {"undefined"}, summary : {"Standup"},
     description : {"undefined", "", "notes"},
     times : CanonicalTimes,
     location : {"undefined", "Room 1"},
     attendees : AttendeeLists,
     htmlLink : {"undefined"}]
GoogleEvent(e) ==
    [id |-> e.id, summary |-> e.summary, description |-> e.description,
     start |-> e.times.start, end |-> e.times.end, location |-> e.location,
     attendees |-> e.attendees, htmlLink |-> e.htmlLink]
NoConversion == [fn |-> "-", input |-> "-", output |-> "-"]

TransInit ==
    /\ googleEvent = GoogleEvent(CHOOSE e \in CanonicalEvents : TRUE)
    /\ outlookEvent = <<>>
    /\ roundTrip = <<>>
    /\ converted = NoConversion

\* Provider tags handed to the factory; NotAString are values that have
\* no toLowerCase method
StringTags == {"google", "outlook", "Google", "OUTLOOK", "azure", "Azure", ""}
NotAString == {"<undefined>", "<null>"}
Tags == StringTags \cup NotAString

\* Token sets: expiry 0 stands for an absent expiry
StartTime == 1000000
GoogleLeadMs == 60000
OutlookLeadMs == 300000
TokenLifetimeMs == 3600000
ExpiryOffsets == {-1, 0, GoogleLeadMs - 1, GoogleLeadMs, GoogleLeadMs + 1,
                  OutlookLeadMs - 1, OutlookLeadMs, OutlookLeadMs + 1}
Expiries == {0} \cup {StartTime + d : d \in ExpiryOffsets}
Tokens(access_token, refresh_token, expiry) ==
    [access_token |-> access_token, refresh_token |-> refresh_token, expiry |-> expiry]
NoTokens == Tokens("-", "-", 0)
TokenSets == {Tokens("at-1", "rt-1", e) : e \in Expiries}

\* new GoogleCalendarProvider(tokens, ...): this.tokens and the credentials
\* of the instance's own OAuth2 client
GoogleCalendarProvider(tokens) ==
    [class |-> "GoogleCalendarProvider", tokens |-> tokens, client |-> tokens]
\* new OutlookCalendarProvider(tokens, msalClient): this.tokens and the
\* access token the Graph client presents
OutlookCalendarProvider(tokens) ==
    [class |-> "OutlookCalendarProvider", tokens |-> tokens, client |-> tokens]
NoProvider == [class |-> "-", tokens |-> NoTokens, client |-> NoTokens]
NoError == [name |-> "-", message |-> <<"-", "-">>]
NoCreated == [tag |-> "-", ok |-> FALSE, provider |-> NoProvider, error |-> NoError]
NoSupported == [tag |-> "-", result |-> "-", error |-> NoError]

FactoryInit ==
    /\ created = NoCreated
    /\ supported = NoSupported

NoPending == [op |-> "-", expiry |-> 0, before |-> NoTokens]

ProvInit ==
    /\ calendarProvider = NoProvider
    /\ now = StartTime
    /\ pending = NoPending
    /\ refreshes = <<>>
    /\ failures = <<>>

NoCallback == [pc |-> "idle", state |-> 0, issuedHere |-> FALSE,
               consumedBefore |-> FALSE, before |-> <<>>]
NoCallbackAnswer == [state |-> 0, issuedHere |-> FALSE, consumedBefore |-> FALSE,
                     status |-> 0, before |-> <<>>, after |-> <<>>]
NoServed == [route |-> "-", status |-> 0, next |-> FALSE, loggedIn |-> FALSE]

AuthInit ==
    /\ oauthState = 0
    /\ issued = {}
    /\ stateSeq = 0
    /\ consumed = {}
    /\ callback = NoCallback
    /\ lastCallback = NoCallbackAnswer
    /\ served = NoServed
    /\ loggedIn = FALSE

NoSettingsCall == [op |-> "-", apiKey |-> "-", model |-> "-", iv |-> "-"]
NoSettingsAnswer == [route |-> "-", apiKey |-> "-", model |-> "-", status |-> 0,
                     error |-> "-", before |-> <<>>, after |-> <<>>]

SettingsInit ==
    /\ settingsCall = NoSettingsCall
    /\ lastSettings = NoSettingsAnswer
    /\ saved = "-"
    /\ readKey = "-"

Callers == {1, 2}
NoConn == [pc |-> "idle", result |-> <<>>, inserted |-> {}, insertedSettings |-> {},
           updated |-> {}, error |-> "-"]
NotFinished == [done |-> FALSE, ok |-> FALSE, id |-> 0, error |-> "-", calls |-> 0]

RaceInit ==
    /\ conn = [c \in Callers |-> NoConn]
    /\ finished = [c \in Callers |-> NotFinished]

NoUiResponse == [status |-> 0, toolCallsExecuted |-> FALSE]
NoSends == [accepted |-> 0, chatRequests |-> 0, sentWhileSending |-> FALSE,
            users |-> 0, assistants |-> 0, refetches |-> 0, reported |-> 0]

UiInit ==
    /\ messages = <<>>
    /\ inputMessage = ""
    /\ isSending = FALSE
    /\ uiPc = "idle"
    /\ uiResponse = NoUiResponse
    /\ sendLog = NoSends

Init ==
    /\ session \in Sessions
    /\ store \in Stores
    /\ oauth2Client = "NULL"
    /\ UiInit
    /\ RaceInit
    /\ SettingsInit
    /\ AuthInit
    /\ TurnInit
    /\ ConcInit
    /\ DbInit
    /\ TransInit
    /\ FactoryInit
    /\ ProvInit
    /\ AuthInit
    /\ SettingsInit
    /\ RaceInit
    /\ UiInit

----------------------------------------------------------------------------
(* Responses *)

NoReply == <<>>
Response(status, error, detail, message, reply, flag) ==
    [status |-> status, error |-> error, detail |-> detail, message |-> message,
     reply |-> reply, toolCallsExecuted |-> flag]

NotAuthenticated == Response(401, "Not authenticated", "-", "-", NoReply, FALSE)
NoUserInSession == Response(401, "User not found in session", "-", "-", NoReply, FALSE)

KeyNotConfigured ==
    Response(403, "OpenRouter API key not configured", "-",
             "Please configure your OpenRouter API key in Settings before using the chat feature.",
             NoReply, FALSE)

\* The outer catch: error is 'Failed to process chat request: ' + error.message;
\* detail holds the appended error.message.
ChatFailed(errorMessage) ==
    Response(500, "Failed to process chat request: ", errorMessage, "-", NoReply, FALSE)

\* Without the inner try/catch the throw reaches the outer catch.
DecryptFailureResponse_Propagated(thrown) == ChatFailed(thrown.message)

\* The catch around decryptApiKey: a fixed body, whatever was thrown.
DecryptFailureResponse(thrown) ==
    Response(500, "Failed to decrypt API key", "-",
             "Please re-configure your API key in Settings.", NoReply, FALSE)

\* res.json({ message }) and res.json({ message, toolCallsExecuted: true })
Reply(message) == Response(200, "-", "-", "-", <<message>>, FALSE)
ReplyAfterTools(message) == Response(200, "-", "-", "-", <<message>>, TRUE)

----------------------------------------------------------------------------
(* Pieces of the handler *)

\* Passing every request on
requireAuth_Open(s) == TRUE

\* !req.session.tokens answers 401; otherwise next()
requireAuth(s) == s.tokens # "NULL"

\* Checking the row only: !settings
KeyConfigured_RowOnly(s) == s.state = "row"

\* !settings || !settings.openrouter_api_key_encrypted is the 403 branch
KeyConfigured(s) ==
    s.state = "row" /\ s.row.openrouter_api_key_encrypted.kind # "null"

DefaultModel == "anthropic/claude-3.5-sonnet"
userModel(s) ==
    IF s.row.openrouter_model = "NULL" THEN DefaultModel ELSE s.row.openrouter_model

\* Checking the field only: an empty array is truthy
HasToolCalls_FieldOnly(m) == m.tc_present

\* assistantMessage.tool_calls && assistantMessage.tool_calls.length > 0
HasToolCalls(m) == m.tc_present /\ Len(m.tool_calls) > 0

\* A chat.completions.create call: the client's key and model, whether tools
\* are declared, and the messages after [systemPrompt, ...messages].
FirstCall(c) ==
    [apiKey |-> c.apiKey, model |-> c.model, tools |-> TRUE, extra |-> <<>>]
\* The follow-up call given tools: calendarTools as the first one is
FollowUpDeclaresTools_AsFirst == TRUE
FollowUpDeclaresTools == FALSE
FollowUpCall(c, msgs) ==
    [apiKey |-> c.apiKey, model |-> c.model, tools |-> FollowUpDeclaresTools, extra |-> msgs]

\* toolResult before JSON.stringify
ResultKey(name) ==
    CASE name = "create_calendar_event" -> "created"
      [] name = "update_calendar_event" -> "updated"
      [] name = "delete_calendar_events" -> "deleted"
      [] OTHER -> "-"
Success(name, count) == [kind |-> "ok", op |-> ResultKey(name), count |-> count, error |-> "-"]
\* A failure result that also carries a count of the items applied
Failure_Counted(errorMessage) ==
    [kind |-> "fail", op |-> "applied", count |-> 0, error |-> errorMessage]

\* JSON.stringify({ success: false, error: error.message })
Failure(errorMessage) == [kind |-> "fail", op |-> "-", count |-> 0, error |-> errorMessage]

\* toolMessages.push({ role: 'tool', tool_call_id: toolCall.id, content: toolResult })
ToolMessage(toolCall, toolResult) ==
    [role |-> "tool", content |-> "-", tc_present |-> FALSE, tool_calls |-> <<>>,
     tool_call_id |-> toolCall.id, result |-> toolResult]

\* The chain ending in a plain else: every other name takes the last branch
IsDeclaredTool_LastElse(name) == TRUE

\* The branch of the if / else-if chain a function name takes
IsDeclaredTool(name) == name \in DeclaredTools

\* The handler from the top of the for loop at tool call i up to its next
\* await or throw: JSON.parse (outside the try), then the branch of the
\* tool.  A tool call that needs no provider call is finished here and the
\* loop goes on.  The result says where the handler stops: at the first
\* provider call of tool call ti, at the follow-up completion, or at an
\* exception that leaves the loop.
RECURSIVE Advance(_, _, _)
Advance(calls, i, msgs) ==
    IF i > Len(calls)
    THEN [pc |-> "llm2", ti |-> i, msgs |-> msgs, err |-> "-"]
    ELSE IF calls[i].args.kind = "malformed"
    THEN [pc |-> "throw", ti |-> i, msgs |-> msgs, err |-> JsonParseError]
    ELSE IF ~IsDeclaredTool(calls[i].name)
    THEN Advance(calls, i + 1, Append(msgs, ToolMessage(calls[i], Undefined)))
    ELSE IF calls[i].args.kind = "noarray"
    THEN Advance(calls, i + 1, Append(msgs, ToolMessage(calls[i], Failure(NotIterableError))))
    ELSE IF calls[i].args.n = 0
    THEN Advance(calls, i + 1, Append(msgs, ToolMessage(calls[i], Success(calls[i].name, 0))))
    ELSE [pc |-> "provider", ti |-> i, msgs |-> msgs, err |-> "-"]

\* The calls of the remaining items started together (no await in the loop)
ItemsStarted_Together(n, j) == [k \in 1..(n - j + 1) |-> j + k - 1]

\* The items whose provider call is started when the inner for loop reaches
\* item j of n: the loop awaits each call, so only item j.
ItemsStarted(n, j) == <<j>>

ProviderCall(calls, i, j) == [tool |-> i, item |-> j, op |-> calls[i].name]

\* Start the provider call(s) of tool call i from item j on.
Start(calls, i, j, settled) ==
    LET js == ItemsStarted(calls[i].args.n, j) IN
    /\ item' = j
    /\ providerLog' = providerLog \o [k \in 1..Len(js) |-> ProviderCall(calls, i, js[k])]
    /\ inflight' = settled \cup {<<i, js[k]>> : k \in 1..Len(js)}

\* Go on from where Advance stopped.
Continue(calls, r, settled) ==
    /\ toolMessages' = r.msgs
    /\ ti' = r.ti
    /\ CASE r.pc = "provider" ->
              /\ pc' = "provider"
              /\ Start(calls, r.ti, 1, settled)
              /\ UNCHANGED <<llmCalls, responses, parseFailed>>
         [] r.pc = "llm2" ->
              /\ pc' = "llm2"
              /\ item' = 0
              /\ llmCalls' = Append(llmCalls, FollowUpCall(client, r.msgs))
              /\ inflight' = settled
              /\ UNCHANGED <<providerLog, responses, parseFailed>>
         [] r.pc = "throw" ->
              /\ pc' = "done"
              /\ item' = 0
              /\ parseFailed' = parseFailed \cup {r.ti}
              /\ responses' = Append(responses, ChatFailed(r.err))
              /\ inflight' = settled
              /\ UNCHANGED <<llmCalls, providerLog>>

Finish_NoResponse(r) ==
    /\ pc' = "done"
    /\ UNCHANGED responses

Finish(r) ==
    /\ pc' = "done"
    /\ responses' = Append(responses, r)

----------------------------------------------------------------------------
(* The handler, one action per stretch between awaits *)

\* The request arrives: requireAuth, the userId check, then the handler
\* awaits getUserSettings.
ChatRequest ==
    /\ pc = "idle"
    /\ IF ~requireAuth(session)
       THEN Finish(NotAuthenticated) /\ UNCHANGED oauth2Client
       ELSE /\ oauth2Client' = session.tokens
            /\ IF session.userId = 0
               THEN Finish(NoUserInSession)
               ELSE pc' = "getSettings" /\ UNCHANGED responses
    /\ UNCHANGED <<session, store, settings, client, first, ti, item, toolMessages,
                   llmCalls, providerLog, inflight, applied, failed, parseFailed>>
    /\ UNCHANGED outsideChat

\* getUserSettings settles: the key check, decryption, the client, and the
\* first completion is requested.
SettingsRead ==
    /\ pc = "getSettings"
    /\ \/ \E e \in StoreErrors :
            /\ Finish(ChatFailed(e))
            /\ UNCHANGED <<settings, client, llmCalls>>
       \/ LET s == getUserSettings(store)
              d == decryptApiKey(s.row.openrouter_api_key_encrypted, s.row.encryption_iv)
              c == [built |-> TRUE, apiKey |-> d.value, model |-> userModel(s)]
          IN
          /\ settings' = s
          /\ IF ~KeyConfigured(s)
             THEN Finish(KeyNotConfigured) /\ UNCHANGED <<client, llmCalls>>
             ELSE IF ~d.ok
             THEN Finish(DecryptFailureResponse(d)) /\ UNCHANGED <<client, llmCalls>>
             ELSE /\ client' = c
                  /\ llmCalls' = Append(llmCalls, FirstCall(c))
                  /\ pc' = "llm1"
                  /\ UNCHANGED responses
    /\ UNCHANGED <<persistent, first, ti, item, toolMessages, providerLog, inflight,
                   applied, failed, parseFailed>>

SettingsReturn == SettingsRead /\ UNCHANGED outsideChat

\* The first completion settles: without tool calls its message is the
\* reply; with tool calls the loop runs up to its first await.
FirstCompletionReturn ==
    /\ pc = "llm1"
    /\ \/ \E e \in LlmErrors :
            /\ Finish(ChatFailed(e))
            /\ UNCHANGED <<first, ti, item, toolMessages, llmCalls, providerLog,
                           inflight, parseFailed>>
       \/ \E m \in FirstResponses :
            /\ first' = <<m>>
            /\ IF HasToolCalls(m)
               THEN Continue(m.tool_calls, Advance(m.tool_calls, 1, <<m>>), inflight)
               ELSE /\ Finish(Reply(m))
                    /\ UNCHANGED <<ti, item, toolMessages, llmCalls, providerLog,
                                   inflight, parseFailed>>
    /\ UNCHANGED <<persistent, settings, client, applied, failed>>
    /\ UNCHANGED outsideChat

\* The provider call of item `item` of tool call `ti` settles.
ProviderReturn ==
    /\ pc = "provider"
    /\ LET calls == first[1].tool_calls
           tc == calls[ti]
           settled == inflight \ {<<ti, item>>}
       IN
       \/ /\ applied' = Append(applied, <<ti, item>>)
          /\ UNCHANGED failed
          /\ IF item < tc.args.n
             THEN /\ Start(calls, ti, item + 1, settled)
                  /\ UNCHANGED <<pc, ti, toolMessages, llmCalls, responses, parseFailed>>
             ELSE Continue(calls,
                           Advance(calls, ti + 1,
                                   Append(toolMessages,
                                          ToolMessage(tc, Success(tc.name, tc.args.n)))),
                           settled)
       \/ \E e \in ProviderErrors :
          /\ failed' = failed \cup {[tool |-> ti, item |-> item, error |-> e]}
          /\ UNCHANGED applied
          /\ Continue(calls,
                      Advance(calls, ti + 1,
                              Append(toolMessages, ToolMessage(tc, Failure(e)))),
                      settled)
    /\ UNCHANGED <<persistent, settings, client, first>>
    /\ UNCHANGED outsideChat

\* The follow-up completion settles: its message is the reply.
FollowUpReturn ==
    /\ pc = "llm2"
    /\ \/ \E e \in LlmErrors : Finish(ChatFailed(e))
       \/ \E m \in SecondResponses : Finish(ReplyAfterTools(m))
    /\ UNCHANGED <<persistent, settings, client, first, ti, item, toolMessages,
                   llmCalls, providerLog, inflight, applied, failed, parseFailed>>
    /\ UNCHANGED outsideChat

\* The next request of the same session starts with fresh locals.
NextRequest ==
    /\ pc = "done"
    /\ pc' = "idle"
    /\ settings' = NoSettings
    /\ client' = NoClient
    /\ first' = <<>>
    /\ ti' = 0
    /\ item' = 0
    /\ toolMessages' = <<>>
    /\ llmCalls' = <<>>
    /\ providerLog' = <<>>
    /\ inflight' = {}
    /\ applied' = <<>>
    /\ failed' = {}
    /\ parseFailed' = {}
    /\ responses' = <<>>
    /\ UNCHANGED persistent
    /\ UNCHANGED outsideChat

Next ==
    \/ ChatRequest
    \/ SettingsReturn
    \/ FirstCompletionReturn
    \/ ProviderReturn
    \/ FollowUpReturn
    \/ NextRequest

Spec == Init /\ [][Next]_vars

----------------------------------------------------------------------------
(* Properties of the chat turn *)

\* The tool calls of the first response, once it is received
Calls == IF first = <<>> THEN <<>> ELSE first[1].tool_calls
Range(seq) == {seq[k] : k \in 1..Len(seq)}
Undeclared(i) == Calls[i].name \notin DeclaredTools

\* C1: when the first response has no tool_calls field or an empty
\* tool_calls array, the one response of the turn is 200 with that message,
\* unchanged, as the reply; no calendar call was made and the first
\* completion is the only LLM call.
C1_NoToolCallsReplyVerbatim ==
    (first # <<>> /\ (~first[1].tc_present \/ first[1].tool_calls = <<>>)) =>
        /\ pc = "done"
        /\ Len(responses) = 1
        /\ responses[1].status = 200
        /\ responses[1].reply = <<first[1]>>
        /\ ~responses[1].toolCallsExecuted
        /\ providerLog = <<>> /\ inflight = {}
        /\ Len(llmCalls) = 1 /\ llmCalls[1].tools

\* A turn answered from a first response whose tool_calls array is empty
C1_Witness ==
    /\ pc = "done"
    /\ first # <<>>
    /\ first[1].tc_present /\ first[1].tool_calls = <<>>
    /\ Len(responses) = 1 /\ responses[1].status = 200

\* C2: in a turn with several tool calls, for each tool call with a provider
\* call that threw: its result is {success:false, error} with the thrown
\* message, every later tool call is processed too, and the follow-up
\* completion is called with that failure result and with the success count
\* of each tool call that succeeded.
C2_ProviderFailureDoesNotAbort ==
    (pc = "done" /\ Len(Calls) >= 2) =>
        \A f \in failed :
            /\ Len(toolMessages) > f.tool
            /\ toolMessages[f.tool + 1].result = Failure(f.error)
            /\ \A j \in (f.tool + 1)..Len(Calls) : Len(toolMessages) > j
            /\ Len(llmCalls) = 2
            /\ llmCalls[2].extra = toolMessages
            /\ \A j \in 1..Len(Calls) :
                 (/\ Calls[j].args.kind = "items"
                  /\ Calls[j].args.n > 0
                  /\ \A k \in 1..Calls[j].args.n : <<j, k>> \in Range(applied))
                 => /\ Len(toolMessages) > j
                    /\ toolMessages[j + 1].result.kind = "ok"
                    /\ toolMessages[j + 1].result.count = Calls[j].args.n

\* C3: a failure raised while a tool call is processed, by reading its
\* arguments or by a provider call, ends up in that tool call's result only:
\* every tool call of the turn is processed and the turn is answered with the
\* reply (or fails on the follow-up completion itself), not with an error
\* response for the tool failure.
C3_ToolFailureContained ==
    (pc = "done" /\ (failed # {} \/ parseFailed # {})) =>
        /\ Len(toolMessages) = 1 + Len(Calls)
        /\ \A i \in parseFailed : toolMessages[i + 1].result.kind = "fail"
        /\ \A f \in failed : toolMessages[f.tool + 1].result = Failure(f.error)
        /\ Len(responses) = 1
        /\ responses[1].status = 200 \/ responses[1].detail \in LlmErrors

\* C4: provider calls are made one at a time, each started after the one
\* before it has settled, in the order of the tool calls and, within a tool
\* call, in the order of its items from the first on; no item is sent twice.
C4_ProviderCallsSequentialInOrder ==
    /\ Cardinality(inflight) <= 1
    /\ \A k \in 1..Len(providerLog) :
         LET c == providerLog[k] IN
         /\ c.tool \in 1..Len(Calls)
         /\ Calls[c.tool].args.kind = "items"
         /\ c.item \in 1..Calls[c.tool].args.n
         /\ c.op = Calls[c.tool].name
         /\ IF k = 1 THEN c.item = 1
            ELSE LET p == providerLog[k - 1] IN
                 \/ p.tool = c.tool /\ c.item = p.item + 1
                 \/ p.tool < c.tool /\ c.item = 1
         /\ IF k < Len(providerLog)
            THEN /\ <<c.tool, c.item>> \notin inflight
                 /\ \/ <<c.tool, c.item>> \in Range(applied)
                    \/ \E f \in failed : f.tool = c.tool /\ f.item = c.item
            ELSE inflight \subseteq {<<c.tool, c.item>>}
    /\ providerLog = <<>> => inflight = {}

\* Provider calls of two tool calls, the second one's still awaited
C4_Witness ==
    /\ Len(providerLog) >= 3
    /\ providerLog[1].tool = 1
    /\ providerLog[Len(providerLog)].tool = 2
    /\ inflight # {}

\* C5: a turn makes at most two LLM calls; the second is made when every
\* tool call of the first response has been processed and no provider call
\* is pending, and declares no tools; once it is made the turn only waits
\* for it and answers: no provider call and no further LLM call follows,
\* whatever tool calls its response carries.
C5_AtMostOneToolRound ==
    /\ [](/\ Len(llmCalls) <= 2
          /\ Len(llmCalls) = 2 =>
                /\ llmCalls[1].tools
                /\ ~llmCalls[2].tools
                /\ Len(llmCalls[2].extra) = 1 + Len(Calls)
                /\ inflight = {}
                /\ pc \in {"llm2", "done"})
    /\ [][pc = "llm2" =>
            /\ pc' = "done"
            /\ providerLog' = providerLog
            /\ applied' = applied
            /\ llmCalls' = llmCalls]_vars

\* A turn answered with a follow-up message that carries tool calls itself
C5_Witness ==
    /\ pc = "done"
    /\ Len(llmCalls) = 2
    /\ Len(responses) = 1 /\ responses[1].status = 200
    /\ responses[1].reply[1].tc_present
    /\ responses[1].reply[1].tool_calls # <<>>


\* The result of tool call i of a declared tool, told from what happened to
\* its provider calls
ExpectedResult(i) ==
    IF \E f \in failed : f.tool = i
    THEN [kind |-> "fail", op |-> "-", count |-> 0,
          error |-> (CHOOSE f \in failed : f.tool = i).error]
    ELSE IF Calls[i].args.kind = "noarray"
    THEN [kind |-> "fail", op |-> "-", count |-> 0, error |-> NotIterableError]
    ELSE [kind |-> "ok", op |-> ResultKey(Calls[i].name),
          count |-> Cardinality({a \in Range(applied) : a[1] = i}), error |-> "-"]

\* The follow-up completion is called with the assistant message of the first
\* response, then one tool message per tool call, in order, with the call's
\* id and, for a declared tool, its result.
FollowUpGetsResultsInOrder ==
    Len(llmCalls) = 2 =>
        LET x == llmCalls[2].extra IN
        /\ Len(x) = 1 + Len(Calls)
        /\ x[1] = first[1] /\ x[1].role = "assistant" /\ x[1].tool_calls = Calls
        /\ \A i \in 1..Len(Calls) :
             /\ x[i + 1].role = "tool"
             /\ x[i + 1].tool_call_id = Calls[i].id
             /\ ~Undeclared(i) =>
                  /\ x[i + 1].result = ExpectedResult(i)
                  /\ x[i + 1].result.kind = "ok" =>
                        x[i + 1].result.count = Calls[i].args.n

\* C6: the follow-up completion gets the assistant message, then
\* one tool message per tool call, in order, each with the call's id and a
\* serialized result that is a success count or an error.
C6_EveryResultCountOrError ==
    /\ FollowUpGetsResultsInOrder
    /\ Len(llmCalls) = 2 =>
          \A i \in 1..Len(Calls) : llmCalls[2].extra[i + 1].result.kind \in {"ok", "fail"}

C8_FlagIffProviderCalled ==
    pc = "done" =>
        /\ Len(responses) = 1
        /\ responses[1].toolCallsExecuted <=> providerLog # <<>>

\* C9: when the settings read returns no row or a row without an encrypted
\* key, the turn is answered 403 (key not configured), and neither an LLM
\* call nor a provider call is made.
C9_NoKeyForbidden ==
    (\/ settings.state = "null"
     \/ settings.state = "row" /\ settings.row.openrouter_api_key_encrypted.kind = "null") =>
        /\ pc = "done"
        /\ Len(responses) = 1
        /\ responses[1].status = 403
        /\ responses[1].error = "OpenRouter API key not configured"
        /\ responses[1].reply = <<>>
        /\ llmCalls = <<>>
        /\ providerLog = <<>> /\ inflight = {}
        /\ ~client.built

\* A turn of a user whose row holds a model and no key (the key was deleted)
C9_Witness ==
    /\ pc = "done"
    /\ settings.state = "row"
    /\ settings.row.openrouter_api_key_encrypted.kind = "null"
    /\ settings.row.openrouter_model # "NULL"
    /\ Len(responses) = 1 /\ responses[1].status = 403

\* C10: when the stored key cannot be decrypted (decryptApiKey throws: other
\* key, corrupt ciphertext, missing or malformed IV), the turn is answered
\* with the fixed error that tells the user to re-configure the key; the
\* response holds neither the thrown message nor the crypto library's
\* error, and neither an LLM call nor a provider call is made.
C10_DecryptFailureFixedResponse ==
    (/\ settings.state = "row"
     /\ settings.row.openrouter_api_key_encrypted.kind # "null"
     /\ ~decryptApiKey(settings.row.openrouter_api_key_encrypted,
                       settings.row.encryption_iv).ok) =>
        /\ pc = "done"
        /\ Len(responses) = 1
        /\ responses[1].status = 500
        /\ responses[1].error = "Failed to decrypt API key"
        /\ responses[1].message = "Please re-configure your API key in Settings."
        /\ responses[1].detail = "-"
        /\ {responses[1].error, responses[1].message}
              \cap (RawCryptoErrors \cup {"Cannot decrypt: missing encrypted data or IV"}) = {}
        /\ responses[1].reply = <<>>
        /\ llmCalls = <<>>
        /\ providerLog = <<>> /\ inflight = {}
        /\ ~client.built

\* A turn that found a key encrypted under another ENCRYPTION_KEY
C10_Witness ==
    /\ pc = "done"
    /\ settings.state = "row"
    /\ settings.row.openrouter_api_key_encrypted.kind = "ct"
    /\ settings.row.openrouter_api_key_encrypted.key # EnvKey
    /\ Len(responses) = 1 /\ responses[1].status = 500

----------------------------------------------------------------------------
(* Concurrent requests of two sessions.  requireAuth writes the session's
   tokens into the process-wide oauth2Client; every calendar call reads the
   credentials that client holds when the call is issued. *)

MaxConcCalls == 2

\* A calendar API call, issued through the process-wide client
CalendarCall(s) == [session |-> s, used |-> oauth2Client]

SetReq(s, route, p, n) ==
    reqs' = [reqs EXCEPT ![s] = [route |-> route, pc |-> p, left |-> n]]

\* A calendar route: requireAuth, then the handler issues its calendar call
\* before it yields.
CalendarRoute(s) ==
    /\ reqs[s].pc = "idle"
    /\ oauth2Client' = SessionTokens[s]
    /\ calendarCalls' = calendarCalls \cup {[session |-> s, used |-> SessionTokens[s]]}
    /\ SetReq(s, "calendar", "calendarApi", 0)
    /\ UNCHANGED outsideConc

\* A settings route: requireAuth, then the handler awaits the store.
SettingsRoute(s) ==
    /\ reqs[s].pc = "idle"
    /\ oauth2Client' = SessionTokens[s]
    /\ SetReq(s, "settings", "store", 0)
    /\ UNCHANGED <<outsideConc, calendarCalls>>

\* The chat route: requireAuth, then the handler awaits getUserSettings.
\* The first response will ask for n calendar calendarCalls.
ChatRoute(s) ==
    /\ reqs[s].pc = "idle"
    /\ \E n \in 0..MaxConcCalls :
         /\ oauth2Client' = SessionTokens[s]
         /\ SetReq(s, "chat", "getSettings", n)
    /\ UNCHANGED <<outsideConc, calendarCalls>>

\* A calendar or settings route gets its answer and responds.
RouteReturn(s) ==
    /\ reqs[s].pc \in {"calendarApi", "store"}
    /\ reqs' = [reqs EXCEPT ![s] = NoRequest]
    /\ UNCHANGED <<oauth2Client, outsideConc, calendarCalls>>

\* getUserSettings settles: the first completion is requested, or the
\* handler responds 403 or 500.
ConcSettingsReturn(s) ==
    /\ reqs[s].pc = "getSettings"
    /\ \/ SetReq(s, "chat", "llm1", reqs[s].left)
       \/ reqs' = [reqs EXCEPT ![s] = NoRequest]
    /\ UNCHANGED <<oauth2Client, outsideConc, calendarCalls>>

\* The first completion settles: the handler responds, or issues the first
\* calendar call of the tool round.
ConcFirstCompletionReturn(s) ==
    /\ reqs[s].pc = "llm1"
    /\ IF reqs[s].left = 0
       THEN /\ reqs' = [reqs EXCEPT ![s] = NoRequest]
            /\ UNCHANGED calendarCalls
       ELSE /\ calendarCalls' = calendarCalls \cup {CalendarCall(s)}
            /\ SetReq(s, "chat", "provider", reqs[s].left - 1)
    /\ UNCHANGED <<oauth2Client, outsideConc>>

\* A calendar call of the tool round settles: the next one is issued, or
\* the follow-up completion is requested.
ConcProviderReturn(s) ==
    /\ reqs[s].pc = "provider"
    /\ IF reqs[s].left = 0
       THEN /\ SetReq(s, "chat", "llm2", 0)
            /\ UNCHANGED calendarCalls
       ELSE /\ calendarCalls' = calendarCalls \cup {CalendarCall(s)}
            /\ SetReq(s, "chat", "provider", reqs[s].left - 1)
    /\ UNCHANGED <<oauth2Client, outsideConc>>

\* The follow-up completion settles and the handler responds.
ConcFollowUpReturn(s) ==
    /\ reqs[s].pc = "llm2"
    /\ reqs' = [reqs EXCEPT ![s] = NoRequest]
    /\ UNCHANGED <<oauth2Client, outsideConc, calendarCalls>>

InitConc ==
    /\ session = NoSession
    /\ store = [present |-> FALSE, row |-> EmptyRow]
    /\ oauth2Client = "NULL"
    /\ UiInit
    /\ RaceInit
    /\ SettingsInit
    /\ AuthInit
    /\ TurnInit
    /\ ConcInit
    /\ DbInit
    /\ TransInit
    /\ FactoryInit
    /\ ProvInit

NextConc ==
    \E s \in SessionIds :
        \/ CalendarRoute(s)
        \/ SettingsRoute(s)
        \/ ChatRoute(s)
        \/ RouteReturn(s)
        \/ ConcSettingsReturn(s)
        \/ ConcFirstCompletionReturn(s)
        \/ ConcProviderReturn(s)
        \/ ConcFollowUpReturn(s)

SpecConc == InitConc /\ [][NextConc]_vars

\* C11: under any interleaving of the requests of two sessions with
\* different tokens, every calendar call is made with the tokens of the
\* session whose request issued it.
C11_CallsUseOwnSessionTokens ==
    \A c \in calendarCalls : c.used = SessionTokens[c.session]

----------------------------------------------------------------------------
(* findOrCreateUser: one transaction, one action per awaited statement *)

\* provider = 'google' when the argument is omitted
DefaultProvider(provider) == IF provider = "undefined" THEN "google" ELSE provider

\* const idColumn = provider === 'outlook' ? 'outlook_id' : 'google_id'
idColumn(provider) == IF provider = "outlook" THEN "outlook_id" ELSE "google_id"

NotNullViolation == "null value violates not-null constraint"
CheckViolation == "new row for relation \"users\" violates check constraint \"provider_id_check\""
UniqueViolation == "duplicate key value violates unique constraint"
ConstraintErrors == {NotNullViolation, CheckViolation, UniqueViolation}

provider_id_check_Dropped(row) == TRUE

\* CONSTRAINT provider_id_check
provider_id_check(row) ==
    \/ row.provider = "google" /\ row.google_id # "NULL"
    \/ row.provider = "outlook" /\ row.outlook_id # "NULL"

\* The constraint an INSERT or UPDATE of `row` into `others` violates, or "-"
UsersViolation(row, others) ==
    IF row.email = "NULL" \/ row.provider = "NULL" THEN NotNullViolation
    ELSE IF ~provider_id_check(row) THEN CheckViolation
    ELSE IF \E u \in others :
                \/ row.google_id # "NULL" /\ u.google_id = row.google_id
                \/ row.outlook_id # "NULL" /\ u.outlook_id = row.outlook_id
                \/ u.id = row.id
         THEN UniqueViolation
    ELSE "-"

SettingsViolation(row, others) ==
    IF \E s \in others : s.user_id = row.user_id THEN UniqueViolation ELSE "-"

\* SELECT * FROM users WHERE ${idColumn} = $1
SelectUser(users, column, providerId) ==
    LET found == {u \in users : u[column] = providerId}
    IN IF found = {} THEN <<>> ELSE <<CHOOSE u \in found : TRUE>>

UserExists_Never(result) == FALSE

\* result.rows.length > 0
UserExists(result) == Len(result) > 0

AfterRollback_KeepsWrites(committed, work) == work

\* ROLLBACK: the writes of the transaction are discarded
AfterRollback(committed, work) == committed

Fail(e) == txn' = [txn EXCEPT !.pc = "ROLLBACK", !.error = e]

Returned(ok) ==
    [args |-> txn.args, ok |-> ok,
     id |-> IF ok THEN txn.result[1].id ELSE 0,
     attempted |-> txn.attempted,
     failedAt |-> IF ok THEN "-" ELSE txn.error.at,
     error |-> IF ok THEN "-" ELSE txn.error.message]

Raised(at, message) == [at |-> at, message |-> message]

\* The call: getClient, then BEGIN is sent.
FindOrCreateUser ==
    /\ txn.pc = "idle"
    /\ Len(returned) < MaxCalls
    /\ \E a \in Args :
         txn' = [NoTxn EXCEPT !.pc = "BEGIN", !.args = a,
                              !.provider = DefaultProvider(a.provider),
                              !.idColumn = idColumn(DefaultProvider(a.provider)),
                              !.work = db]
    /\ UNCHANGED <<db, users_id_seq, returned, outsideDb>>

\* BEGIN settles; the lookup is sent.
BeginReturn ==
    /\ txn.pc = "BEGIN"
    /\ \/ txn' = [txn EXCEPT !.pc = "SELECT", !.work = db]
       \/ \E e \in StoreErrors : Fail(Raised("BEGIN", e))
    /\ UNCHANGED <<db, users_id_seq, returned, outsideDb>>

\* The lookup settles; the UPDATE or the INSERT of the user is sent.
SelectReturn ==
    /\ txn.pc = "SELECT"
    /\ \/ LET result == SelectUser(txn.work.users, txn.idColumn, txn.args.providerId)
          IN txn' = [txn EXCEPT !.result = result,
                                !.pc = IF UserExists(result) THEN "UPDATE" ELSE "INSERT"]
       \/ \E e \in StoreErrors : Fail(Raised("SELECT", e))
    /\ UNCHANGED <<db, users_id_seq, returned, outsideDb>>

\* The UPDATE settles; COMMIT is sent.
UpdateReturn ==
    /\ txn.pc = "UPDATE"
    /\ \/ LET old == {u \in txn.work.users : u[txn.idColumn] = txn.args.providerId}
              new == {[u EXCEPT !.email = txn.args.email] : u \in old}
              row == CHOOSE u \in new : TRUE
              v == UsersViolation(row, txn.work.users \ old)
          IN IF v # "-"
             THEN Fail(Raised("UPDATE", v))
             ELSE txn' = [txn EXCEPT !.pc = "COMMIT", !.result = <<row>>,
                                     !.work.users = (txn.work.users \ old) \cup new]
       \/ \E e \in StoreErrors : Fail(Raised("UPDATE", e))
    /\ UNCHANGED <<db, users_id_seq, returned, outsideDb>>

\* The INSERT of the user settles; the INSERT of the settings row is sent.
InsertReturn ==
    /\ txn.pc = "INSERT"
    /\ \/ LET id == users_id_seq + 1
              row == UserRow(id,
                             IF txn.idColumn = "google_id" THEN txn.args.providerId ELSE "NULL",
                             IF txn.idColumn = "outlook_id" THEN txn.args.providerId ELSE "NULL",
                             txn.provider, txn.args.email)
              v == UsersViolation(row, txn.work.users)
          IN /\ users_id_seq' = id
             /\ IF v # "-"
                THEN txn' = [txn EXCEPT !.pc = "ROLLBACK", !.attempted = id,
                                        !.error = Raised("INSERT", v)]
                ELSE txn' = [txn EXCEPT !.pc = "INSERT_SETTINGS", !.result = <<row>>,
                                        !.attempted = id,
                                        !.work.users = txn.work.users \cup {row}]
       \/ /\ \E e \in StoreErrors : Fail(Raised("INSERT", e))
          /\ UNCHANGED users_id_seq
    /\ UNCHANGED <<db, returned, outsideDb>>

\* The INSERT of the settings row settles; COMMIT is sent.
SettingsInsertReturn ==
    /\ txn.pc = "INSERT_SETTINGS"
    /\ \/ LET row == SettingsRow(txn.result[1].id)
              v == SettingsViolation(row, txn.work.user_settings)
          IN IF v # "-"
             THEN Fail(Raised("INSERT_SETTINGS", v))
             ELSE txn' = [txn EXCEPT !.pc = "COMMIT",
                                     !.work.user_settings = txn.work.user_settings \cup {row}]
       \/ \E e \in StoreErrors : Fail(Raised("INSERT_SETTINGS", e))
    /\ UNCHANGED <<db, users_id_seq, returned, outsideDb>>

\* COMMIT settles: the call returns result.rows[0].
CommitReturn ==
    /\ txn.pc = "COMMIT"
    /\ \/ /\ db' = txn.work
          /\ returned' = Append(returned, Returned(TRUE))
          /\ txn' = NoTxn
       \/ /\ \E e \in StoreErrors : Fail(Raised("COMMIT", e))
          /\ UNCHANGED <<db, returned>>
    /\ UNCHANGED <<users_id_seq, outsideDb>>

\* The catch: ROLLBACK settles and the error is thrown to the caller.
RollbackReturn ==
    /\ txn.pc = "ROLLBACK"
    /\ db' = AfterRollback(db, txn.work)
    /\ returned' = Append(returned, Returned(FALSE))
    /\ txn' = NoTxn
    /\ UNCHANGED <<users_id_seq, outsideDb>>

InitDb ==
    /\ session = NoSession
    /\ store = [present |-> FALSE, row |-> EmptyRow]
    /\ oauth2Client = "NULL"
    /\ UiInit
    /\ RaceInit
    /\ SettingsInit
    /\ AuthInit
    /\ TurnInit
    /\ ConcInit
    /\ DbInit
    /\ TransInit
    /\ FactoryInit
    /\ ProvInit

NextDb ==
    \/ FindOrCreateUser
    \/ BeginReturn
    \/ SelectReturn
    \/ UpdateReturn
    \/ InsertReturn
    \/ SettingsInsertReturn
    \/ CommitReturn
    \/ RollbackReturn

SpecDb == InitDb /\ [][NextDb]_vars

UsersWith(column, providerId) == {u \in db.users : u[column] = providerId}
SettingsOf(id) == {s \in db.user_settings : s.user_id = id}

\* C12: when findOrCreateUser has returned a user and is called again with
\* the same provider id and email, the second call returns the same user id
\* (it can fail only on a failure of the store, never on a constraint), and
\* the store holds exactly one user row for that provider id and exactly
\* one settings row for that user; two such calls on an empty store leave
\* one user row and one settings row in all.
C12_SecondCallSameUser ==
    \A i \in 1..(Len(returned) - 1) :
        LET a == returned[i]
            b == returned[i + 1]
        IN (a.ok /\ b.args = a.args) =>
             /\ b.ok => b.id = a.id
             /\ ~b.ok => b.error \in StoreErrors
             /\ Cardinality(UsersWith(idColumn(DefaultProvider(a.args.provider)),
                                      a.args.providerId)) = 1
             /\ Cardinality(SettingsOf(a.id)) = 1
             /\ (i = 1 /\ Len(returned) = 2) =>
                    /\ Cardinality(db.users) = 1
                    /\ Cardinality(db.user_settings) = 1

C12_Witness ==
    /\ Len(returned) = 2
    /\ returned[1].ok /\ returned[2].ok
    /\ returned[2].args = returned[1].args
    /\ returned[2].id = returned[1].id
    /\ txn.pc = "idle"

\* C13: in every committed state each user row has exactly one settings
\* row; a call that failed (at the lookup, the user insert, the settings
\* insert or any other statement) kept neither the user row nor the
\* settings row it was inserting, and threw the error of the failing
\* statement to its caller.
C13_UserAndSettingsAtomic ==
    /\ \A u \in db.users : Cardinality(SettingsOf(u.id)) = 1
    /\ \A s \in db.user_settings : \E u \in db.users : u.id = s.user_id
    /\ \A i \in 1..Len(returned) :
         ~returned[i].ok =>
            /\ returned[i].error \in StoreErrors \cup ConstraintErrors
            /\ returned[i].attempted # 0 =>
                 /\ \A u \in db.users : u.id # returned[i].attempted
                 /\ SettingsOf(returned[i].attempted) = {}

C13_Witness ==
    /\ \E i \in 1..Len(returned) :
         /\ ~returned[i].ok
         /\ returned[i].failedAt = "INSERT_SETTINGS"
         /\ returned[i].attempted # 0
    /\ \E i \in 1..Len(returned) : returned[i].ok
    /\ txn.pc = "idle"

\* C14: every user row written by findOrCreateUser, committed or not, has
\* exactly one of google_id and outlook_id set, its provider tag is google
\* or outlook, and the id that is set is the one the tag names.
C14_ExactlyOneProviderId ==
    \A u \in db.users \cup txn.work.users :
        /\ (u.google_id # "NULL") # (u.outlook_id # "NULL")
        /\ u.provider \in {"google", "outlook"}
        /\ u.provider = "google" => u.google_id # "NULL"
        /\ u.provider = "outlook" => u.outlook_id # "NULL"

C14_Witness ==
    /\ \E u \in db.users : u.provider = "outlook" /\ u.outlook_id # "NULL"
    /\ \E i \in 1..Len(returned) :
         /\ returned[i].args.provider = "azure"
         /\ returned[i].error = CheckViolation

----------------------------------------------------------------------------
(* The Outlook translators *)

\* _transformGoogleEventToOutlook
transformGoogleEventToOutlook(g) ==
    [id |-> "undefined",
     subject |-> g.summary,
     body |-> [contentType |-> "HTML", content |-> Or(g.description, "")],
     start |-> [dateTime |-> Or(g.start.dateTime, g.start.date),
                timeZone |-> Or(g.start.timeZone, "UTC")],
     end |-> [dateTime |-> Or(g.end.dateTime, g.end.date),
              timeZone |-> Or(g.end.timeZone, "UTC")],
     location |-> IF g.location \in Falsy THEN <<>>
                  ELSE <<[displayName |-> g.location]>>,
     attendees |-> [k \in 1..Len(g.attendees) |->
                      [emailAddress |->
                           [address |-> g.attendees[k].email,
                            name |-> Or(g.attendees[k].displayName,
                                        g.attendees[k].email)],
                       type |-> "required",
                       status |-> [response |-> "undefined"]]],
     webLink |-> "undefined"]

\* A property read on an object literal: own properties first, then the
\* members every object inherits from Object.prototype
ObjectPrototype ==
    [constructor |-> "[Function: Object]",
     toString |-> "[Function: toString]",
     valueOf |-> "[Function: valueOf]",
     hasOwnProperty |-> "[Function: hasOwnProperty]"]
Get(object, key) ==
    IF key \in DOMAIN object THEN object[key]
    ELSE IF key \in DOMAIN ObjectPrototype THEN ObjectPrototype[key]
    ELSE "undefined"

colorMap ==
    [lightBlue |-> "#4A8CF7", lightGreen |-> "#0B8043", lightOrange |-> "#F6BF26",
     lightGray |-> "#A8A8A8", lightYellow |-> "#FFD800", lightTeal |-> "#039BE5",
     lightPink |-> "#E67C73", lightBrown |-> "#8E6C42", lightRed |-> "#D50000",
     auto |-> "#039BE5"]

\* _convertOutlookColor
convertOutlookColor(outlookColor) == Or(Get(colorMap, outlookColor), "#039BE5")

statusMap ==
    [accepted |-> "accepted", declined |-> "declined",
     tentativelyAccepted |-> "tentative", notResponded |-> "needsAction",
     organizer |-> "accepted"]

\* _convertOutlookResponseStatus
convertOutlookResponseStatus(outlookStatus) ==
    Or(Get(statusMap, outlookStatus), "needsAction")

\* _transformOutlookEventToGoogle
transformOutlookEventToGoogle(o) ==
    [id |-> o.id,
     summary |-> o.subject,
     description |-> Or(o.body.content, ""),
     start |-> Time(o.start.dateTime, Or(o.start.timeZone, "UTC"), "undefined"),
     end |-> Time(o.end.dateTime, Or(o.end.timeZone, "UTC"), "undefined"),
     location |-> Or(IF o.location = <<>> THEN "undefined"
                     ELSE o.location[1].displayName, ""),
     attendees |-> [k \in 1..Len(o.attendees) |->
                      Attendee(o.attendees[k].emailAddress.address,
                               o.attendees[k].emailAddress.name,
                               convertOutlookResponseStatus(
                                   o.attendees[k].status.response))],
     htmlLink |-> o.webLink]

\* Inputs of the lookup translators: the table's names, other values
\* of the Graph API, an absent value, and other strings
OutlookColors ==
    DOMAIN colorMap \cup {"maxColor", "undefined", "", "constructor", "valueOf"}
OutlookStatuses ==
    DOMAIN statusMap \cup {"none", "undefined", "", "constructor", "toString"}

TransformGoogleEventToOutlook ==
    /\ outlookEvent = <<>>
    /\ outlookEvent' = <<transformGoogleEventToOutlook(googleEvent)>>
    /\ UNCHANGED <<googleEvent, roundTrip, converted, outsideTrans>>

TransformOutlookEventToGoogle ==
    /\ outlookEvent # <<>>
    /\ roundTrip = <<>>
    /\ roundTrip' = <<transformOutlookEventToGoogle(outlookEvent[1])>>
    /\ UNCHANGED <<googleEvent, outlookEvent, converted, outsideTrans>>

ConvertOutlookColor ==
    /\ \E c \in OutlookColors :
         converted' = [fn |-> "color", input |-> c, output |-> convertOutlookColor(c)]
    /\ UNCHANGED <<googleEvent, outlookEvent, roundTrip, outsideTrans>>

ConvertOutlookResponseStatus ==
    /\ \E s \in OutlookStatuses :
         converted' = [fn |-> "status", input |-> s,
                       output |-> convertOutlookResponseStatus(s)]
    /\ UNCHANGED <<googleEvent, outlookEvent, roundTrip, outsideTrans>>

InitTrans ==
    /\ session = NoSession
    /\ store = [present |-> FALSE, row |-> EmptyRow]
    /\ oauth2Client = "NULL"
    /\ UiInit
    /\ RaceInit
    /\ SettingsInit
    /\ AuthInit
    /\ TurnInit
    /\ ConcInit
    /\ DbInit
    /\ googleEvent \in {GoogleEvent(e) : e \in CanonicalEvents}
    /\ outlookEvent = <<>>
    /\ roundTrip = <<>>
    /\ converted = NoConversion
    /\ FactoryInit
    /\ ProvInit

NextTrans ==
    \/ TransformGoogleEventToOutlook
    \/ TransformOutlookEventToGoogle
    \/ ConvertOutlookColor
    \/ ConvertOutlookResponseStatus

SpecTrans == InitTrans /\ [][NextTrans]_vars

\* C15: a canonical event, timed or all-day, translated to the Outlook
\* form and back has the same summary, description, start, end and
\* location.
C15_RoundTripPreserves ==
    roundTrip # <<>> =>
        /\ roundTrip[1].summary = googleEvent.summary
        /\ roundTrip[1].description = googleEvent.description
        /\ roundTrip[1].start = googleEvent.start
        /\ roundTrip[1].end = googleEvent.end
        /\ roundTrip[1].location = googleEvent.location

\* C16: the status translator returns the table's value for the five
\* names of the table and needsAction for every other input, an absent one
\* included; the color translator returns the table's value for each
\* named color and #039BE5 for every other input, auto and an absent one
\* included.
C16_LookupTranslatorsTotal ==
    /\ converted.fn = "status" =>
         converted.output =
             IF converted.input \in DOMAIN statusMap
             THEN statusMap[converted.input] ELSE "needsAction"
    /\ converted.fn = "color" =>
         converted.output =
             IF converted.input \in DOMAIN colorMap \ {"auto"}
             THEN colorMap[converted.input] ELSE "#039BE5"

----------------------------------------------------------------------------
(* ProviderFactory *)

toLowerCase_Identity(tag) == tag

\* String.prototype.toLowerCase, on the tags above
toLowerCase(tag) ==
    CASE tag = "Google" -> "google"
      [] tag = "OUTLOOK" -> "outlook"
      [] tag = "Azure" -> "azure"
      [] OTHER -> tag

TypeError == [name |-> "TypeError", message |-> <<"Cannot read properties of", "toLowerCase">>]
UnsupportedProvider(providerType) ==
    [name |-> "Error", message |-> <<"Unsupported calendar provider: ", providerType>>]

\* getProviderName() of the two classes
getProviderName(p) ==
    IF p.class = "GoogleCalendarProvider" THEN "google" ELSE "outlook"

getSupportedProviders == {"google", "outlook"}

\* ProviderFactory.createProvider
createProvider(providerType, tokens) ==
    IF providerType \in NotAString
    THEN [tag |-> providerType, ok |-> FALSE, provider |-> NoProvider, error |-> TypeError]
    ELSE CASE toLowerCase(providerType) = "google" ->
                [tag |-> providerType, ok |-> TRUE,
                 provider |-> GoogleCalendarProvider(tokens), error |-> NoError]
           [] toLowerCase(providerType) = "outlook" ->
                [tag |-> providerType, ok |-> TRUE,
                 provider |-> OutlookCalendarProvider(tokens), error |-> NoError]
           [] OTHER ->
                [tag |-> providerType, ok |-> FALSE, provider |-> NoProvider,
                 error |-> UnsupportedProvider(providerType)]

\* ProviderFactory.isProviderSupported
isProviderSupported(providerType) ==
    IF providerType \in NotAString
    THEN [tag |-> providerType, result |-> "throws", error |-> TypeError]
    ELSE [tag |-> providerType,
          result |-> IF toLowerCase(providerType) \in getSupportedProviders
                     THEN "true" ELSE "false",
          error |-> NoError]

FactoryTokens == {Tokens("at-1", "rt-1", 0), Tokens("at-2", "rt-2", StartTime + TokenLifetimeMs)}

CreateProvider ==
    /\ \E tag \in Tags, t \in FactoryTokens : created' = createProvider(tag, t)
    /\ UNCHANGED <<supported, outsideFactory>>

IsProviderSupported ==
    /\ \E tag \in Tags : supported' = isProviderSupported(tag)
    /\ UNCHANGED <<created, outsideFactory>>

InitFactory ==
    /\ session = NoSession
    /\ store = [present |-> FALSE, row |-> EmptyRow]
    /\ oauth2Client = "NULL"
    /\ UiInit
    /\ RaceInit
    /\ SettingsInit
    /\ AuthInit
    /\ TurnInit
    /\ ConcInit
    /\ DbInit
    /\ TransInit
    /\ FactoryInit
    /\ ProvInit

NextFactory ==
    \/ CreateProvider
    \/ IsProviderSupported

SpecFactory == InitFactory /\ [][NextFactory]_vars

\* Whether createProvider succeeds for a tag (with any tokens)
Succeeds(tag) == \E t \in FactoryTokens : createProvider(tag, t).ok

\* C17: createProvider fails with the unsupported-provider error for every
\* tag that is not one of google and outlook, returns for google and outlook
\* a provider whose getProviderName() is that tag, and isProviderSupported(tag)
\* is true exactly for the tags for which createProvider succeeds.
C17_FactoryExactTags ==
    /\ created.tag # "-" =>
         IF created.tag \in {"google", "outlook"}
         THEN created.ok /\ getProviderName(created.provider) = created.tag
         ELSE ~created.ok /\ created.error = UnsupportedProvider(created.tag)
    /\ supported.tag # "-" => (supported.result = "true" <=> Succeeds(supported.tag))

GoogleSpellings == {"google", "Google"}
OutlookSpellings == {"outlook", "OUTLOOK"}

\* C17, amended: createProvider matches the tag without regard to case.  For
\* a string tag that is google or outlook in some spelling it returns a
\* provider whose getProviderName() is the lower-case name; for every other
\* string tag it fails with the unsupported-provider error, naming the tag
\* as given; isProviderSupported(tag) is true for the first kind of tag and
\* false for the second; for a tag that is not a string both throw a
\* TypeError.
C17_FactoryCaseInsensitiveTags ==
    /\ created.tag \in GoogleSpellings =>
         created.ok /\ getProviderName(created.provider) = "google"
    /\ created.tag \in OutlookSpellings =>
         created.ok /\ getProviderName(created.provider) = "outlook"
    /\ created.tag \in StringTags \ (GoogleSpellings \cup OutlookSpellings) =>
         ~created.ok /\ created.error = UnsupportedProvider(created.tag)
    /\ created.tag \in NotAString => ~created.ok /\ created.error = TypeError
    /\ supported.tag \in GoogleSpellings \cup OutlookSpellings =>
         supported.result = "true"
    /\ supported.tag \in StringTags \ (GoogleSpellings \cup OutlookSpellings) =>
         supported.result = "false"
    /\ supported.tag \in NotAString =>
         supported.result = "throws" /\ supported.error = TypeError

C17_Witness ==
    /\ created.tag = "Google" /\ created.ok
    /\ getProviderName(created.provider) = "google"
    /\ supported.tag = "OUTLOOK" /\ supported.result = "true"

----------------------------------------------------------------------------
(* One provider instance: its operations and refreshTokenIfNeeded *)

MaxFailures == 2

Operations == {"listCalendars", "getEvents", "createEvent", "updateEvent", "deleteEvent"}

\* What the calendar API, or the translation around the call, throws
ApiErrors == {"Rate Limit Exceeded", "Cannot read properties of undefined (reading 'start')"}
\* What the identity provider's client throws
IdpErrors == {"invalid_grant", "network timeout"}

\* throw new Error('...') of each operation's catch
ErrorMessages ==
    [GoogleCalendarProvider |->
        [listCalendars |-> "Failed to fetch calendars from Google",
         getEvents |-> "Failed to fetch events from Google Calendar",
         createEvent |-> "Failed to create event in Google Calendar",
         updateEvent |-> "Failed to update event in Google Calendar",
         deleteEvent |-> "Failed to delete event from Google Calendar",
         refreshTokenIfNeeded |-> "Failed to refresh Google OAuth token"],
     OutlookCalendarProvider |->
        [listCalendars |-> "Failed to fetch calendars from Outlook",
         getEvents |-> "Failed to fetch events from Outlook Calendar",
         createEvent |-> "Failed to create event in Outlook Calendar",
         updateEvent |-> "Failed to update event in Outlook Calendar",
         deleteEvent |-> "Failed to delete event from Outlook Calendar",
         refreshTokenIfNeeded |-> "Failed to refresh Outlook OAuth token"]]

Thrown_Rethrown(class, op, error) == error

\* catch (error) { console.error(...); throw new Error('...') }
Thrown(class, op, error) == ErrorMessages[class][op]

\* The token set refreshTokenIfNeeded looks at: the OAuth2 client's
\* credentials (Google), this.tokens (Outlook)
CurrentTokens(p) ==
    IF p.class = "GoogleCalendarProvider" THEN p.client ELSE p.tokens

NeedsRefresh_SameLead(p, t) ==
    CurrentTokens(p).expiry # 0 /\ CurrentTokens(p).expiry < t + GoogleLeadMs

\* tokens.expiry_date && tokens.expiry_date < Date.now() + 60000
\* this.tokens.expires_at && this.tokens.expires_at < Date.now() + 300000
NeedsRefresh(p, t) ==
    /\ CurrentTokens(p).expiry # 0
    /\ CurrentTokens(p).expiry <
           t + (IF p.class = "GoogleCalendarProvider" THEN GoogleLeadMs ELSE OutlookLeadMs)

\* Replacing the token set and keeping the API client
Refreshed_TokensOnly(p, new) == [p EXCEPT !.tokens = new]

\* The instance after a refresh that succeeded
Refreshed(p, new) ==
    IF p.class = "GoogleCalendarProvider"
    THEN [p EXCEPT !.client = new]
    ELSE [p EXCEPT !.tokens = new, !.client = new]

Push(window, entry) ==
    IF Len(window) < MaxFailures THEN Append(window, entry)
    ELSE Append(Tail(window), entry)

Failed(op, e) ==
    [op |-> op, underlying |-> e, message |-> Thrown(calendarProvider.class, op, e)]

Settled(contacted, ok, returnedTokens, before) ==
    [expiry |-> before.expiry, at |-> now, contacted |-> contacted, ok |-> ok,
     returned |-> returnedTokens, before |-> before]

\* refreshTokenIfNeeded is called: it returns the tokens it has, or asks
\* the identity provider for new ones.
RefreshTokenIfNeeded ==
    /\ pending = NoPending
    /\ LET cur == CurrentTokens(calendarProvider)
       IN IF NeedsRefresh(calendarProvider, now)
          THEN /\ pending' = [op |-> "refreshTokenIfNeeded", expiry |-> cur.expiry,
                              before |-> cur]
               /\ UNCHANGED refreshes
          ELSE /\ refreshes' = <<Settled(FALSE, TRUE, cur, cur)>>
               /\ UNCHANGED pending
    /\ UNCHANGED <<calendarProvider, now, failures, outsideProv>>

\* The identity provider answers.
RefreshReturn ==
    /\ pending.op = "refreshTokenIfNeeded"
    /\ pending' = NoPending
    /\ \/ \E rt \in {"undefined", "rt-2"} :
            LET new == Tokens("at-2", Or(rt, pending.before.refresh_token),
                              now + TokenLifetimeMs)
            IN /\ calendarProvider' = Refreshed(calendarProvider, new)
               /\ refreshes' = <<Settled(TRUE, TRUE, new, pending.before)>>
               /\ UNCHANGED failures
       \/ \E e \in IdpErrors :
            /\ failures' = Push(failures, Failed("refreshTokenIfNeeded", e))
            /\ refreshes' = <<Settled(TRUE, FALSE, NoTokens, pending.before)>>
            /\ UNCHANGED calendarProvider
    /\ UNCHANGED <<now, outsideProv>>

\* A calendar operation is called and awaits the calendar API.
CallOperation ==
    /\ pending = NoPending
    /\ \E op \in Operations :
         \* before: the tokens the API client presents with the call
         pending' = [op |-> op, expiry |-> 0, before |-> calendarProvider.client]
    /\ UNCHANGED <<calendarProvider, now, refreshes, failures, outsideProv>>

\* The operation settles: it returns, or its catch throws.
OperationReturn ==
    /\ pending.op \in Operations
    /\ pending' = NoPending
    /\ \/ UNCHANGED failures
       \/ \E e \in ApiErrors : failures' = Push(failures, Failed(pending.op, e))
    /\ UNCHANGED <<calendarProvider, now, refreshes, outsideProv>>

InitProv ==
    /\ session = NoSession
    /\ store = [present |-> FALSE, row |-> EmptyRow]
    /\ oauth2Client = "NULL"
    /\ UiInit
    /\ RaceInit
    /\ SettingsInit
    /\ AuthInit
    /\ TurnInit
    /\ ConcInit
    /\ DbInit
    /\ TransInit
    /\ FactoryInit
    /\ calendarProvider \in {createProvider(tag, t).provider :
                                 tag \in getSupportedProviders, t \in TokenSets}
    /\ now = StartTime
    /\ pending = NoPending
    /\ refreshes = <<>>
    /\ failures = <<>>

NextProv ==
    \/ RefreshTokenIfNeeded
    \/ RefreshReturn
    \/ CallOperation
    \/ OperationReturn

SpecProv == InitProv /\ [][NextProv]_vars

\* The lead window the claim gives each provider, in milliseconds
ClaimedLead(class) == IF class = "GoogleCalendarProvider" THEN 60 * 1000 ELSE 300 * 1000

\* C18: refreshTokenIfNeeded contacts the identity provider exactly when
\* the token set has an expiry and that expiry is less than the provider's
\* lead window (Google 60 s, Outlook 300 s) after the current time; in every
\* other case it returns the token set it had, unchanged, without
\* contacting the identity provider.
C18_RefreshExactlyWithinLead ==
    /\ pending.op = "refreshTokenIfNeeded" =>
         /\ pending.expiry # 0
         /\ pending.expiry < now + ClaimedLead(calendarProvider.class)
    /\ \A k \in 1..Len(refreshes) :
         LET r == refreshes[k]
         IN /\ r.contacted <=>
                 (r.expiry # 0 /\ r.expiry < r.at + ClaimedLead(calendarProvider.class))
            /\ ~r.contacted => r.ok /\ r.returned = r.before

C18_Witness ==
    /\ calendarProvider.class = "OutlookCalendarProvider"
    /\ Len(refreshes) = 1
    /\ refreshes[1].contacted /\ refreshes[1].ok
    /\ refreshes[1].expiry >= refreshes[1].at + 60 * 1000
    /\ refreshes[1].returned # refreshes[1].before

\* C19: the message of the error a provider operation throws is fixed per
\* operation: it is never the text of the underlying error, and two
\* failures of the same operation with different underlying errors throw
\* the same message.
C19_ThrownMessageFixedPerOperation ==
    \A i, j \in 1..Len(failures) :
        /\ failures[i].message \notin ApiErrors \cup IdpErrors
        /\ failures[i].op = failures[j].op => failures[i].message = failures[j].message

C19_Witness ==
    /\ Len(failures) = 2
    /\ failures[1].op = failures[2].op
    /\ failures[1].underlying # failures[2].underlying
    /\ failures[1].op = "createEvent"

\* C23: the token set of an Outlook provider and the token its Graph client
\* presents change only when a refresh that contacted the identity provider
\* succeeds, and then both become the tokens it returned; a refresh that
\* fails or was not needed leaves both as they were; every API call presents
\* the access token of the current token set.
C23_OutlookTokensChangeOnlyByRefresh ==
    /\ [](calendarProvider.class = "OutlookCalendarProvider" =>
            /\ calendarProvider.client = calendarProvider.tokens
            /\ pending.op \in Operations =>
                 pending.before.access_token = calendarProvider.tokens.access_token
            /\ \A k \in 1..Len(refreshes) :
                 calendarProvider.tokens =
                     IF refreshes[k].contacted /\ refreshes[k].ok
                     THEN refreshes[k].returned ELSE refreshes[k].before)
    /\ [][(/\ calendarProvider.class = "OutlookCalendarProvider"
           /\ calendarProvider' # calendarProvider)
             => /\ pending.op = "refreshTokenIfNeeded"
                /\ refreshes'[1].contacted /\ refreshes'[1].ok
                /\ calendarProvider'.tokens = refreshes'[1].returned
                /\ calendarProvider'.client = refreshes'[1].returned]_vars

C23_Witness ==
    /\ calendarProvider.class = "OutlookCalendarProvider"
    /\ Len(refreshes) = 1
    /\ refreshes[1].contacted /\ refreshes[1].ok
    /\ refreshes[1].before.access_token # "at-2"
    /\ pending.op \in Operations
    /\ pending.before.access_token = "at-2"

----------------------------------------------------------------------------
(* The chat turn and the errors of the services it calls *)

\* C20: no response of a chat turn carries the text of an error of the
\* calendar API or of the LLM API, so two turns that differ only in that
\* text get the same response.
C20_NoUpstreamErrorTextInResponse ==
    \A k \in 1..Len(responses) :
        {responses[k].error, responses[k].detail, responses[k].message}
            \cap (LlmErrors \cup ProviderErrors) = {}

\* C21: a chat request has no response while its handler runs and exactly
\* one once it has ended; the response is the reply (200) or an error with
\* status 401, 403 or 500; and while the handler runs, whatever the store,
\* the LLM or the provider answers, it has a next step.
C21_ExactlyOneResponse ==
    /\ Len(responses) <= 1
    /\ pc = "done" <=> Len(responses) = 1
    /\ \A k \in 1..Len(responses) :
         /\ responses[k].status \in {200, 401, 403, 500}
         /\ responses[k].status = 200 <=> responses[k].reply # NoReply
         /\ responses[k].status # 200 <=> responses[k].error # "-"
    /\ pc \notin {"idle", "done"} =>
         ENABLED (SettingsReturn \/ FirstCompletionReturn \/ ProviderReturn
                    \/ FollowUpReturn)

C21_Witness ==
    /\ pc = "done"
    /\ Len(responses) = 1
    /\ responses[1].status = 500
    /\ failed # {}
    /\ Len(llmCalls) = 2

----------------------------------------------------------------------------
(* The OAuth life of a session (server.js 76-198)                          *)
(*                                                                         *)
(* One browser session is followed through /api/auth/google, the callback, *)
(* logout and requests to the routes behind requireAuth.  The callback     *)
(* stops at each of its awaits; the other routes have none before the      *)
(* point of interest.  One callback is in progress at a time.              *)

\* State values /api/auth/google can issue in one behaviour
MaxIssued == 2

\* The state parameter of a callback: 0 is a callback without one, 1..MaxIssued
\* are the values the process issues, MaxIssued + 1 is a value it never issues.
StateParams == 0..(MaxIssued + 1)

\* The routes registered with requireAuth
ProtectedRoutes == {"settings", "calendar", "chat"}

outsideAuth == <<store, turn, concVars, dbVars, transVars, factoryVars, provVars, settingsVars, raceVars, uiVars>>

\* req.session.oauthState && state !== req.session.oauthState
StateCheckFails(sessionState, state) == sessionState # 0 /\ state # sessionState

\* Writing the tokens alone
Establish_TokensOnly(s, tokens, user) == [s EXCEPT !.tokens = tokens]

\* req.session.tokens = tokens; req.session.userId = user.id
Establish(s, tokens, user) == [tokens |-> tokens, userId |-> user]

CallbackAnswer(status, after) ==
    [state |-> callback.state, issuedHere |-> callback.issuedHere,
     consumedBefore |-> callback.consumedBefore, status |-> status,
     before |-> callback.before, after |-> after]

\* GET /api/auth/google: crypto.randomBytes gives a value not issued before
AuthGoogle ==
    /\ stateSeq < MaxIssued
    /\ stateSeq' = stateSeq + 1
    /\ oauthState' = stateSeq + 1
    /\ issued' = issued \cup {stateSeq + 1}
    /\ UNCHANGED <<session, oauth2Client, consumed, callback, lastCallback, served,
                   loggedIn, outsideAuth>>

\* GET /api/auth/callback up to its first await
AuthCallback(state) ==
    /\ callback.pc = "idle"
    /\ IF StateCheckFails(oauthState, state)
       THEN /\ lastCallback' =
                 [state |-> state, issuedHere |-> state \in issued,
                  consumedBefore |-> state \in consumed, status |-> 400,
                  before |-> <<session, oauthState>>, after |-> <<session, oauthState>>]
            /\ UNCHANGED <<oauthState, consumed, callback>>
       ELSE /\ oauthState' = 0
            /\ consumed' = IF oauthState # 0 THEN consumed \cup {oauthState} ELSE consumed
            /\ callback' = [pc |-> "getToken", state |-> state,
                            issuedHere |-> state \in issued,
                            consumedBefore |-> state \in consumed,
                            before |-> <<session, oauthState>>]
            /\ UNCHANGED lastCallback
    /\ UNCHANGED <<session, oauth2Client, issued, stateSeq, served, loggedIn, outsideAuth>>

\* oauth2Client.getToken(code) settles
GetTokenReturn ==
    /\ callback.pc = "getToken"
    /\ \/ /\ oauth2Client' = "tok-A"
          /\ callback' = [callback EXCEPT !.pc = "identity"]
          /\ UNCHANGED lastCallback
       \/ \* it throws, or gives no tokens
          /\ lastCallback' = CallbackAnswer(500, <<session, oauthState>>)
          /\ callback' = NoCallback
          /\ UNCHANGED oauth2Client
    /\ UNCHANGED <<session, oauthState, issued, stateSeq, consumed, served, loggedIn,
                   outsideAuth>>

\* verifyIdToken and, when it gave no id or email, userinfo.get settle
IdentityReturn ==
    /\ callback.pc = "identity"
    /\ \/ /\ callback' = [callback EXCEPT !.pc = "findOrCreateUser"]
          /\ UNCHANGED lastCallback
       \/ \* no id or email: the explicit 500, or userinfo.get threw
          /\ lastCallback' = CallbackAnswer(500, <<session, oauthState>>)
          /\ callback' = NoCallback
    /\ UNCHANGED <<session, oauth2Client, oauthState, issued, stateSeq, consumed, served,
                   loggedIn, outsideAuth>>

\* findOrCreateUser settles
CallbackUserReturn ==
    /\ callback.pc = "findOrCreateUser"
    /\ \/ /\ session' = Establish(session, "tok-A", 1)
          /\ loggedIn' = TRUE
          /\ lastCallback' = CallbackAnswer(302, <<session', oauthState>>)
       \/ /\ lastCallback' = CallbackAnswer(500, <<session, oauthState>>)
          /\ UNCHANGED <<session, loggedIn>>
    /\ callback' = NoCallback
    /\ UNCHANGED <<oauth2Client, oauthState, issued, stateSeq, consumed, served,
                   outsideAuth>>

\* POST /api/auth/logout: the session is destroyed, the next request of the
\* browser starts an empty one
Logout ==
    /\ session' = NoSession
    /\ oauthState' = 0
    /\ issued' = {}
    /\ loggedIn' = FALSE
    /\ UNCHANGED <<oauth2Client, stateSeq, consumed, callback, lastCallback, served,
                   outsideAuth>>

\* A request to a route registered with requireAuth, up to the handler
ProtectedRequest(route) ==
    /\ IF requireAuth(session)
       THEN /\ oauth2Client' = session.tokens
            /\ served' = [route |-> route, status |-> 0, next |-> TRUE,
                          loggedIn |-> loggedIn]
       ELSE /\ served' = [route |-> route, status |-> 401, next |-> FALSE,
                          loggedIn |-> loggedIn]
            /\ UNCHANGED oauth2Client
    /\ UNCHANGED <<session, oauthState, issued, stateSeq, consumed, callback,
                   lastCallback, loggedIn, outsideAuth>>

InitAuth ==
    /\ session = NoSession
    /\ store = [present |-> FALSE, row |-> EmptyRow]
    /\ oauth2Client = "NULL"
    /\ UiInit
    /\ RaceInit
    /\ SettingsInit
    /\ AuthInit
    /\ TurnInit
    /\ ConcInit
    /\ DbInit
    /\ TransInit
    /\ FactoryInit
    /\ ProvInit

NextAuth ==
    \/ AuthGoogle
    \/ \E state \in StateParams : AuthCallback(state)
    \/ GetTokenReturn
    \/ IdentityReturn
    \/ CallbackUserReturn
    \/ Logout
    \/ \E route \in ProtectedRoutes : ProtectedRequest(route)

SpecAuth == InitAuth /\ [][NextAuth]_vars

\* C22: a request to a settings, calendar or chat route reaches its handler
\* (and so the store, the provider or the LLM) exactly when a callback has
\* succeeded and no logout followed it; otherwise requireAuth answers it 401
\* and the handler never runs.  The session holds tokens exactly in that
\* stretch.
C22_ServedOnlyWhileAuthenticated ==
    /\ session.tokens # "NULL" <=> loggedIn
    /\ served.route # "-" =>
         /\ served.next <=> served.loggedIn
         /\ ~served.loggedIn <=> served.status = 401

C22_Witness ==
    /\ served.route = "chat"
    /\ served.status = 401
    /\ ~served.next
    /\ ~loggedIn
    /\ lastCallback.status = 302

\* C25: the session holds OAuth tokens exactly when it holds a user id, in
\* every state: also while a callback is in progress, after one failed and
\* after a logout.
C25_TokensIffUserId ==
    session.tokens # "NULL" <=> session.userId # 0

C25_Witness ==
    /\ session.tokens = "tok-A"
    /\ session.userId = 1
    /\ lastCallback.status = 500
    /\ callback.pc = "findOrCreateUser"

\* C26: a callback establishes the session only when its state parameter was
\* issued to this session and not consumed by an earlier callback; a callback
\* with any other state is answered 400 and leaves the session as it was.
C26_CallbackNeedsIssuedUnconsumedState ==
    lastCallback.status # 0 =>
        /\ lastCallback.status = 302 =>
             lastCallback.issuedHere /\ ~lastCallback.consumedBefore
        /\ ~(lastCallback.issuedHere /\ ~lastCallback.consumedBefore) =>
             /\ lastCallback.status = 400
             /\ lastCallback.after = lastCallback.before

----------------------------------------------------------------------------
(* A provider failure in the middle of a tool call *)

\* C24: when item k of a tool call fails at the provider, the items before k
\* stay applied and no call undoes them, no item after k of that tool call
\* is attempted, and the one tool result of that tool call is
\* {success: false, error} with the provider's message and no count.
C24_FailureKeepsEarlierSkipsLater ==
    \A f \in failed :
        /\ \A j \in 1..(f.item - 1) :
             \E a \in 1..Len(applied) : applied[a] = <<f.tool, j>>
        /\ \A k \in 1..Len(providerLog) :
             /\ providerLog[k].tool = f.tool => providerLog[k].item <= f.item
             /\ providerLog[k].op = Calls[providerLog[k].tool].name
             /\ \A l \in 1..Len(providerLog) :
                  (/\ providerLog[k].tool = providerLog[l].tool
                   /\ providerLog[k].item = providerLog[l].item) => k = l
        /\ \E m \in 1..Len(toolMessages) :
             /\ toolMessages[m].role = "tool"
             /\ toolMessages[m].tool_call_id = Calls[f.tool].id
             /\ toolMessages[m].result = [kind |-> "fail", op |-> "-", count |-> 0,
                                          error |-> f.error]
             /\ \A o \in 1..Len(toolMessages) :
                  (/\ toolMessages[o].role = "tool"
                   /\ toolMessages[o].tool_call_id = Calls[f.tool].id) => o = m

C24_Witness ==
    /\ pc = "done"
    /\ \E f \in failed : f.tool = 1 /\ f.item = 2
    /\ \E f \in failed : f.tool = 2 /\ f.item = 1 /\ Calls[2].args.n = 2
    /\ Len(applied) = 1
    /\ Len(providerLog) = 3

----------------------------------------------------------------------------
(* The settings routes and the chat turns that follow them                 *)
(* (server.js 236-289, 498-530; db/connection.js 92-117)                   *)
(*                                                                         *)
(* One signed-in user saves and deletes the API key while chat turns run.  *)
(* A settings request stops at its one await, the write to the store; one  *)
(* settings request is in progress at a time.  Of a chat turn the part up  *)
(* to the first completion request is followed (ChatRequest, SettingsRead) *)
(* and the rest of the turn, which neither reads the store nor builds a    *)
(* client, is one step.                                                    *)

\* What the body of a save can carry as apiKey and as model
NotAStringInput == "<number>"
ApiKeyInputs == {"undefined", "", "  ", "sk-A", " sk-B ", NotAStringInput}
ModelInputs == {"undefined", "", "  ", "model-1", " model-2 "}
\* crypto.randomBytes(IV_LENGTH)
Ivs == {"iv1", "iv2"}

\* String.prototype.trim
trim(str) ==
    CASE str = "  " -> ""
      [] str = " sk-B " -> "sk-B"
      [] str = " model-2 " -> "model-2"
      [] OTHER -> str

outsideSettings == <<concVars, dbVars, transVars, factoryVars, provVars, authVars, raceVars, uiVars>>

\* Writing the model and keeping the key and the IV of the row
updateUserSettings_ModelOnly(st, openrouterApiKeyEncrypted, openrouterModel, encryptionIv) ==
    [st EXCEPT !.row.openrouter_model = openrouterModel]

\* The statement of updateUserSettings: it writes the row of the user, if any
updateUserSettings(st, openrouterApiKeyEncrypted, openrouterModel, encryptionIv) ==
    IF st.present
    THEN [st EXCEPT !.row = Row(openrouterApiKeyEncrypted, encryptionIv, openrouterModel)]
    ELSE st

\* Clearing the key and keeping the IV
deleteUserApiKey_KeyOnly(st) ==
    [st EXCEPT !.row = Row(NullCipher, st.row.encryption_iv, st.row.openrouter_model)]

\* The statement of deleteUserApiKey
deleteUserApiKey(st) ==
    IF st.present
    THEN [st EXCEPT !.row = Row(NullCipher, "NULL", st.row.openrouter_model)]
    ELSE st

\* The API key a chat turn gets from the store: "-" when the row holds none
StoredKey(st) ==
    IF st.row.openrouter_api_key_encrypted.kind = "null" THEN "-"
    ELSE decryptApiKey(st.row.openrouter_api_key_encrypted, st.row.encryption_iv).value

SettingsAnswer(route, apiKey, model, status, error, after) ==
    [route |-> route, apiKey |-> apiKey, model |-> model, status |-> status,
     error |-> error, before |-> store, after |-> after]

\* POST /api/user/settings up to the await of updateUserSettings
SaveSettings(apiKey, model, iv) ==
    /\ settingsCall = NoSettingsCall
    /\ LET answer(status, error) ==
              /\ lastSettings' = SettingsAnswer("POST", apiKey, model, status, error, store)
              /\ UNCHANGED settingsCall
       IN IF ~requireAuth(session) THEN answer(401, "Not authenticated")
          ELSE IF session.userId = 0 THEN answer(401, "User not found in session")
          ELSE IF apiKey \in Falsy THEN answer(400, "API key is required")
          \* apiKey.trim is not a function: the TypeError reaches the catch
          ELSE IF apiKey = NotAStringInput THEN answer(500, "Failed to save user settings")
          ELSE IF trim(apiKey) \in Falsy THEN answer(400, "API key is required")
          ELSE IF model \in Falsy \/ trim(model) \in Falsy
          THEN answer(400, "Model name is required")
          ELSE /\ settingsCall' = [op |-> "updateUserSettings", apiKey |-> apiKey,
                                   model |-> model, iv |-> iv]
               /\ UNCHANGED lastSettings
    /\ UNCHANGED <<persistent, turn, saved, readKey, outsideSettings>>

\* DELETE /api/user/settings/api-key up to the await of deleteUserApiKey
DeleteApiKey ==
    /\ settingsCall = NoSettingsCall
    /\ LET answer(status, error) ==
              /\ lastSettings' = SettingsAnswer("DELETE", "-", "-", status, error, store)
              /\ UNCHANGED settingsCall
       IN IF ~requireAuth(session) THEN answer(401, "Not authenticated")
          ELSE IF session.userId = 0 THEN answer(401, "User not found in session")
          ELSE /\ settingsCall' = [op |-> "deleteUserApiKey", apiKey |-> "-",
                                   model |-> "-", iv |-> "-"]
               /\ UNCHANGED lastSettings
    /\ UNCHANGED <<persistent, turn, saved, readKey, outsideSettings>>

\* The write settles: the store applied the statement, or the query threw
SettingsWriteReturn ==
    /\ settingsCall # NoSettingsCall
    /\ settingsCall' = NoSettingsCall
    /\ LET c == settingsCall
           route == IF c.op = "updateUserSettings" THEN "POST" ELSE "DELETE"
           e == encryptApiKey(trim(c.apiKey), c.iv)
           written == IF c.op = "updateUserSettings"
                      THEN updateUserSettings(store, e.encrypted, trim(c.model), e.iv)
                      ELSE deleteUserApiKey(store)
       IN \/ /\ store' = written
             /\ saved' = IF c.op = "updateUserSettings" THEN c.apiKey ELSE "-"
             /\ lastSettings' = SettingsAnswer(route, c.apiKey, c.model, 200, "-", written)
          \/ /\ lastSettings' =
                    SettingsAnswer(route, c.apiKey, c.model, 500,
                                   IF c.op = "updateUserSettings"
                                   THEN "Failed to save user settings"
                                   ELSE "Failed to delete API key", store)
             /\ UNCHANGED <<store, saved>>
    /\ UNCHANGED <<session, oauth2Client, turn, readKey, outsideSettings>>

\* getUserSettings of the chat turn settles (SettingsRead)
ChatSettingsReturn ==
    /\ SettingsRead
    /\ readKey' = IF \E e \in StoreErrors : responses' = <<ChatFailed(e)>>
                  THEN "<not read>" ELSE saved
    /\ UNCHANGED <<settingsCall, lastSettings, saved, outsideSettings>>

\* The rest of the turn and the start of the next
TurnOver ==
    /\ pc \in {"llm1", "done"}
    /\ pc' = "idle"
    /\ settings' = NoSettings
    /\ client' = NoClient
    /\ first' = <<>>
    /\ ti' = 0
    /\ item' = 0
    /\ toolMessages' = <<>>
    /\ llmCalls' = <<>>
    /\ providerLog' = <<>>
    /\ inflight' = {}
    /\ applied' = <<>>
    /\ failed' = {}
    /\ parseFailed' = {}
    /\ responses' = <<>>
    /\ readKey' = "-"
    /\ UNCHANGED <<persistent, settingsCall, lastSettings, saved, outsideSettings>>

InitSettings ==
    /\ session = [tokens |-> "tok-A", userId |-> 1]
    \* the row findOrCreateUser wrote
    /\ store = [present |-> TRUE, row |-> EmptyRow]
    /\ oauth2Client = "NULL"
    /\ UiInit
    /\ RaceInit
    /\ AuthInit
    /\ SettingsInit
    /\ TurnInit
    /\ ConcInit
    /\ DbInit
    /\ TransInit
    /\ FactoryInit
    /\ ProvInit

NextSettings ==
    \/ \E apiKey \in ApiKeyInputs, model \in ModelInputs, iv \in Ivs :
         SaveSettings(apiKey, model, iv)
    \/ DeleteApiKey
    \/ SettingsWriteReturn
    \/ ChatRequest
    \/ ChatSettingsReturn
    \/ TurnOver

SpecSettings == InitSettings /\ [][NextSettings]_vars

Blank(str) == str \in Falsy \/ trim(str) \in Falsy

\* C27: the row holds an encrypted key exactly when it holds an IV; a save
\* that is not answered 200 (an empty or blank key or model never is)
\* leaves the row as it was; a deletion leaves the stored model as it
\* was and clears the key.
C27_KeyIffIvAndRejectedSaveChangesNothing ==
    /\ store.row.openrouter_api_key_encrypted.kind = "null"
           <=> store.row.encryption_iv = "NULL"
    /\ lastSettings.route = "POST" =>
         /\ (Blank(lastSettings.apiKey) \/ Blank(lastSettings.model)) =>
              lastSettings.status \in {400, 500}
         /\ lastSettings.status # 200 => lastSettings.after = lastSettings.before
         /\ lastSettings.status = 200 =>
              /\ lastSettings.after.row.openrouter_api_key_encrypted.kind = "ct"
              /\ lastSettings.after.row.openrouter_model = trim(lastSettings.model)
    /\ lastSettings.route = "DELETE" =>
         /\ lastSettings.after.row.openrouter_model =
                lastSettings.before.row.openrouter_model
         /\ lastSettings.status = 200 =>
              lastSettings.after.row.openrouter_api_key_encrypted.kind = "null"
         /\ lastSettings.status # 200 => lastSettings.after = lastSettings.before

C27_Witness ==
    /\ lastSettings.route = "DELETE"
    /\ lastSettings.status = 200
    /\ lastSettings.before.row.openrouter_api_key_encrypted.kind = "ct"
    /\ lastSettings.before.row.openrouter_model = "model-2"
    /\ store.row.encryption_iv = "NULL"

----------------------------------------------------------------------------
(* Concurrent findOrCreateUser calls (db/connection.js)                    *)
(*                                                                         *)
(* Two callers sign in with the same Google id at once.  Each call runs    *)
(* its transaction on its own pooled connection, at PostgreSQL's default   *)
(* isolation level, READ COMMITTED: a statement sees the committed rows    *)
(* and the writes of its own transaction; an INSERT whose key another      *)
(* transaction has inserted and not yet committed, and an UPDATE of a row  *)
(* another transaction has updated and not yet committed, wait for that    *)
(* transaction to end.  The store itself does not fail here.               *)

\* Calls each caller makes, one after the other
MaxRaceCalls == 2

RaceProviderId == "p1"
RaceEmails == <<"a@x", "b@x">>

\* The users table before the calls: empty, or holding the user already
RaceDbs ==
    {EmptyDb,
     [users |-> {UserRow(1, RaceProviderId, "NULL", "google", "old@x")},
      user_settings |-> {SettingsRow(1)}]}

outsideRace == <<persistent, turn, txn, returned, concVars, transVars, factoryVars, provVars, authVars, settingsVars, uiVars>>

Other(c) == CHOOSE o \in Callers : o # c

\* The users a statement of caller c sees: committed rows, with the writes
\* of its own transaction
VisibleUsers(c) ==
    {u \in db.users : \A w \in conn[c].updated : w.id # u.id}
        \cup conn[c].updated \cup conn[c].inserted

SetConn(c, new) == conn' = [conn EXCEPT ![c] = new]

\* The call: getClient, then BEGIN is sent.
RaceCall(c) ==
    /\ conn[c].pc = "idle"
    /\ finished[c].calls < MaxRaceCalls
    /\ SetConn(c, [NoConn EXCEPT !.pc = "BEGIN"])
    /\ UNCHANGED <<db, users_id_seq, finished, outsideRace>>

\* BEGIN settles; the lookup is sent.
RaceBeginReturn(c) ==
    /\ conn[c].pc = "BEGIN"
    /\ SetConn(c, [conn[c] EXCEPT !.pc = "SELECT"])
    /\ UNCHANGED <<db, users_id_seq, finished, outsideRace>>

\* The lookup settles; the UPDATE or the INSERT of the user is sent.
RaceSelectReturn(c) ==
    /\ conn[c].pc = "SELECT"
    /\ LET result == SelectUser(VisibleUsers(c), idColumn("google"), RaceProviderId)
       IN SetConn(c, [conn[c] EXCEPT !.result = result,
                                     !.pc = IF UserExists(result) THEN "UPDATE" ELSE "INSERT"])
    /\ UNCHANGED <<db, users_id_seq, finished, outsideRace>>

\* The UPDATE settles, once no other transaction holds the row; COMMIT is sent.
RaceUpdateReturn(c) ==
    /\ conn[c].pc = "UPDATE"
    /\ LET old == {u \in VisibleUsers(c) : u.google_id = RaceProviderId}
           new == {[u EXCEPT !.email = RaceEmails[c]] : u \in old}
       IN /\ \A u \in old : \A w \in conn[Other(c)].updated : w.id # u.id
          /\ SetConn(c, [conn[c] EXCEPT
                           !.pc = "COMMIT",
                           !.result = IF new = {} THEN <<>> ELSE <<CHOOSE u \in new : TRUE>>,
                           !.updated = new])
    /\ UNCHANGED <<db, users_id_seq, finished, outsideRace>>

\* The INSERT of the user settles, once no other transaction holds its key
\* uncommitted; the INSERT of the settings row is sent, or the catch runs.
RaceInsertReturn(c) ==
    /\ conn[c].pc = "INSERT"
    /\ \A u \in conn[Other(c)].inserted : u.google_id # RaceProviderId
    /\ LET id == users_id_seq + 1
           row == UserRow(id, RaceProviderId, "NULL", DefaultProvider("undefined"),
                          RaceEmails[c])
           v == UsersViolation(row, VisibleUsers(c))
       IN /\ users_id_seq' = id
          /\ IF v # "-"
             THEN SetConn(c, [conn[c] EXCEPT !.pc = "ROLLBACK", !.error = v])
             ELSE SetConn(c, [conn[c] EXCEPT !.pc = "INSERT_SETTINGS", !.result = <<row>>,
                                             !.inserted = {row}])
    /\ UNCHANGED <<db, finished, outsideRace>>

\* The INSERT of the settings row settles; COMMIT is sent.
RaceSettingsInsertReturn(c) ==
    /\ conn[c].pc = "INSERT_SETTINGS"
    /\ LET row == SettingsRow(conn[c].result[1].id)
           v == SettingsViolation(row, db.user_settings \cup conn[c].insertedSettings)
       IN IF v # "-"
          THEN SetConn(c, [conn[c] EXCEPT !.pc = "ROLLBACK", !.error = v])
          ELSE SetConn(c, [conn[c] EXCEPT !.pc = "COMMIT", !.insertedSettings = {row}])
    /\ UNCHANGED <<db, users_id_seq, finished, outsideRace>>

\* COMMIT settles: the writes become visible and the call returns result.rows[0].
RaceCommitReturn(c) ==
    /\ conn[c].pc = "COMMIT"
    /\ db' = [users |-> VisibleUsers(c),
              user_settings |-> db.user_settings \cup conn[c].insertedSettings]
    /\ finished' = [finished EXCEPT ![c] =
                       [done |-> TRUE, ok |-> TRUE, id |-> conn[c].result[1].id,
                        error |-> "-", calls |-> finished[c].calls + 1]]
    /\ SetConn(c, NoConn)
    /\ UNCHANGED <<users_id_seq, outsideRace>>

\* The catch: ROLLBACK settles and the error is thrown to the caller.
RaceRollbackReturn(c) ==
    /\ conn[c].pc = "ROLLBACK"
    /\ finished' = [finished EXCEPT ![c] =
                       [done |-> TRUE, ok |-> FALSE, id |-> 0, error |-> conn[c].error,
                        calls |-> finished[c].calls + 1]]
    /\ SetConn(c, NoConn)
    /\ UNCHANGED <<db, users_id_seq, outsideRace>>

InitRace ==
    /\ session = NoSession
    /\ store = [present |-> FALSE, row |-> EmptyRow]
    /\ oauth2Client = "NULL"
    /\ UiInit
    /\ AuthInit
    /\ SettingsInit
    /\ RaceInit
    /\ TurnInit
    /\ ConcInit
    /\ db \in RaceDbs
    /\ users_id_seq = Cardinality(db.users)
    /\ txn = NoTxn
    /\ returned = <<>>
    /\ TransInit
    /\ FactoryInit
    /\ ProvInit

NextRace ==
    \E c \in Callers :
        \/ RaceCall(c)
        \/ RaceBeginReturn(c)
        \/ RaceSelectReturn(c)
        \/ RaceUpdateReturn(c)
        \/ RaceInsertReturn(c)
        \/ RaceSettingsInsertReturn(c)
        \/ RaceCommitReturn(c)
        \/ RaceRollbackReturn(c)

SpecRace == InitRace /\ [][NextRace]_vars

\* C29: under every interleaving of two calls with the same provider id the
\* store holds at most one user row for that id and at most one settings row
\* for a user, and every call that has ended returned that one user
\* (finished holds the outcome of each caller's last call).
C29_ConcurrentCallsReturnTheOneUser ==
    /\ Cardinality({u \in db.users : u.google_id = RaceProviderId}) <= 1
    /\ \A u \in db.users :
         Cardinality({s \in db.user_settings : s.user_id = u.id}) <= 1
    /\ \A c \in Callers :
         finished[c].done =>
             /\ finished[c].ok
             /\ \E u \in db.users : u.google_id = RaceProviderId /\ u.id = finished[c].id

----------------------------------------------------------------------------
(* The chat panel (App.handleSendMessage, App.handleNewChat)               *)
(*                                                                         *)
(* The user types, submits and starts new chats while a send is in         *)
(* progress.  handleSendMessage stops at its awaits: the fetch of          *)
(* /api/chat, response.json() and fetchEvents().  State updates of a       *)
(* handler are visible to the next event.                                  *)

\* Sends accepted in one behaviour
MaxSends == 2

InputTexts == {"", "  ", "hi"}
\* The statuses /api/chat answers with
ChatStatuses == {200, 401, 403, 500}

outsideUi == <<persistent, turn, concVars, dbVars, transVars, factoryVars, provVars, authVars, settingsVars, raceVars>>

\* Sending whenever the input is not blank
Accepts_IgnoresSending(input, sending) == trim(input) # ""

\* if (!inputMessage.trim() || isSending) return
Accepts(input, sending) == trim(input) # "" /\ ~sending

\* the else branch: response.ok, and data.toolCallsExecuted
Refetches(status, data) == status = 200 /\ data.toolCallsExecuted

AppendAssistant ==
    /\ messages' = Append(messages, "assistant")
    /\ sendLog' = [sendLog EXCEPT !.assistants = @ + 1]

\* finally { setIsSending(false) }
Finally ==
    /\ isSending' = FALSE
    /\ uiPc' = "idle"
    /\ uiResponse' = NoUiResponse

\* onInputChange: setInputMessage(e.target.value)
InputChange(text) ==
    /\ inputMessage' = text
    /\ UNCHANGED <<messages, isSending, uiPc, uiResponse, sendLog, outsideUi>>

\* handleNewChat: setMessages([])
HandleNewChat ==
    /\ messages' = <<>>
    /\ UNCHANGED <<inputMessage, isSending, uiPc, uiResponse, sendLog, outsideUi>>

\* handleSendMessage up to the await of fetch
HandleSendMessage ==
    /\ sendLog.accepted < MaxSends
    /\ Accepts(inputMessage, isSending)
    /\ messages' = Append(messages, "user")
    /\ inputMessage' = ""
    /\ isSending' = TRUE
    /\ uiPc' = "fetch"
    /\ uiResponse' = NoUiResponse
    /\ sendLog' = [sendLog EXCEPT !.accepted = @ + 1, !.chatRequests = @ + 1,
                                  !.users = @ + 1,
                                  !.sentWhileSending = @ \/ isSending]
    /\ UNCHANGED outsideUi

\* fetch settles: a response of any status, or a network error
FetchReturn ==
    /\ uiPc = "fetch"
    /\ \/ /\ \E status \in ChatStatuses :
               uiResponse' = [status |-> status, toolCallsExecuted |-> FALSE]
          /\ uiPc' = "json"
          /\ UNCHANGED <<messages, isSending, sendLog>>
       \/ AppendAssistant /\ Finally
    /\ UNCHANGED <<inputMessage, outsideUi>>

\* response.json() settles: the body, or a rejection when it is not JSON
JsonReturn ==
    /\ uiPc = "json"
    /\ \/ \E flag \in (IF uiResponse.status = 200 THEN BOOLEAN ELSE {FALSE}) :
            LET data == [uiResponse EXCEPT !.toolCallsExecuted = flag]
            IN /\ messages' = Append(messages, "assistant")
               /\ IF Refetches(uiResponse.status, data)
                  THEN /\ uiPc' = "fetchEvents"
                       /\ uiResponse' = data
                       /\ UNCHANGED isSending
                  ELSE Finally
               /\ sendLog' = [sendLog EXCEPT
                                !.assistants = @ + 1,
                                !.reported = IF uiResponse.status = 200 /\ flag
                                             THEN @ + 1 ELSE @,
                                !.refetches = IF Refetches(uiResponse.status, data)
                                              THEN @ + 1 ELSE @]
       \/ AppendAssistant /\ Finally
    /\ UNCHANGED <<inputMessage, outsideUi>>

\* fetchEvents settles; it catches its own errors
FetchEventsReturn ==
    /\ uiPc = "fetchEvents"
    /\ Finally
    /\ UNCHANGED <<messages, inputMessage, sendLog, outsideUi>>

InitUi ==
    /\ session = NoSession
    /\ store = [present |-> FALSE, row |-> EmptyRow]
    /\ oauth2Client = "NULL"
    /\ AuthInit
    /\ SettingsInit
    /\ RaceInit
    /\ UiInit
    /\ TurnInit
    /\ ConcInit
    /\ DbInit
    /\ TransInit
    /\ FactoryInit
    /\ ProvInit

NextUi ==
    \/ \E text \in InputTexts : InputChange(text)
    \/ HandleNewChat
    \/ HandleSendMessage
    \/ FetchReturn
    \/ JsonReturn
    \/ FetchEventsReturn

SpecUi == InitUi /\ [][NextUi]_vars

\* C30: every accepted send appends the user message and sends one chat
\* request; when the send has ended, whatever the status or the network
\* outcome, it has appended exactly one assistant message after it and
\* isSending is false again; no chat request is sent while isSending is
\* true; the send re-fetches the events exactly when the reply reports
\* toolCallsExecuted.
C30_OneAssistantMessagePerSend ==
    /\ isSending <=> uiPc # "idle"
    /\ sendLog.users = sendLog.accepted
    /\ sendLog.chatRequests = sendLog.accepted
    /\ ~sendLog.sentWhileSending
    /\ sendLog.assistants =
           IF uiPc \in {"fetch", "json"} THEN sendLog.accepted - 1 ELSE sendLog.accepted
    /\ sendLog.refetches = sendLog.reported
    /\ uiPc = "fetchEvents" => uiResponse.status = 200 /\ uiResponse.toolCallsExecuted
    /\ \A k \in 1..Len(messages) :
         messages[k] = "user" =>
             IF k < Len(messages) THEN messages[k + 1] = "assistant"
             ELSE uiPc \in {"fetch", "json"}

C30_Witness ==
    /\ uiPc = "idle"
    /\ ~isSending
    /\ sendLog.accepted = 2
    /\ sendLog.assistants = 2
    /\ sendLog.refetches = 1
    /\ messages = <<"user", "assistant", "user", "assistant">>

====
